---- MODULE Spec2Model ----
(***************************************************************************)
(* A model of the PPT-to-video pipeline: the batch narration protocol of   *)
(* PPTToVideoPipeline._generate_transcripts and TranscriptGenerator, the   *)
(* speech stage, and the ffmpeg compositor VideoSynthesizer.synthesize.    *)
(*                                                                         *)
(* Texts are modelled by what the code reads of them: their Python type,   *)
(* their length in characters, their leading whitespace and where they     *)
(* come from.  A raw model response is a sequence of tokens: slide markers *)
(* ("第i页", "Slide i"), ordinary characters and newlines.                  *)
(***************************************************************************)
EXTENDS Integers, Sequences, FiniteSets, TLC

\* ------------------------------------------------------------------ bounds
MaxSlides == 2
MaxItems == 4
MaxCount == 3
MaxClips == 3
MaxTextLen == 3
MaxTexts == 2
MaxDuration == 6
MaxDeck == 7
MaxBatch == 3

\* --------------------------------------------------------- program constants
SummaryChars == 100
RecentSummaries == 5
StopAfterAttempt == 3
RetryAttempts == 3
DefaultApiRetryAttempts == 3
DefaultDuration == 5
MarkerContentLimit == 500
FirstFallbackLen == 117
LastFallbackLen == 121
MiddleFallbackBase == 159
OpeningFillerLen == 143
ClosingFillerLen == 167
EarlyFillerLen == 133
MiddleFillerLen == 163
LateFillerLen == 150
PadErrorBase == 14
ParseErrorBase == 14
SingleErrorBase == 14
BatchFailLen == 19
DefaultMinLength == 200
\* the progress fractions of process, in tenths
ParsingProgress == 1
TranscriptsProgress == 3
SpeechProgress == 6
VideoProgress == 8
CompleteProgress == 10

\* ------------------------------------------------------------------- texts
\* len(str(n)) for a slide number
Digits(n) == IF n < 10 THEN 1 ELSE IF n < 100 THEN 2 ELSE 3

\* A Python value found under the key "transcript".
\*   kind: "str", "list" (len() works, + "..." does not), "null" (len() raises)
\*   len:  len(value); lead: leading whitespace characters of a str
\*   src:  where the text comes from; n: the slide number written in it
\*   band: the filler paragraph appended by _enhance_transcript
Text(kind, len, lead, src, n, band) ==
    [kind |-> kind, len |-> len, lead |-> lead, src |-> src, n |-> n, band |-> band]

Str(len, src, n) == Text("str", len, 0, src, n, "none")

Narration(sn, t) == [slide_number |-> sn, transcript |-> t]

\* len(repr(value)) of a JSON list of small integers, as an f-string prints it
ReprLen(t) == IF t.kind = "list" THEN (IF t.len = 0 THEN 2 ELSE 3 * t.len) ELSE t.len

\* ------------------------------------------------- raw responses (token texts)
Zh(i) == <<"zh", i>>
En(i) == <<"en", i>>
Ch == <<"x", 0>>
NL == <<"nl", 0>>

IsSpace(tok) == tok = NL

Contains(s, tok) == \E p \in 1..Len(s) : s[p] = tok

\* str.find(tok, from): the first position >= from holding tok, 0 when there is none
Find(s, tok, from) ==
    IF \E p \in from..Len(s) : s[p] = tok
    THEN CHOOSE p \in from..Len(s) : s[p] = tok /\ \A q \in from..(p - 1) : s[q] # tok
    ELSE 0

\* str.replace(tok, "")
Remove(s, tok) == SelectSeq(s, LAMBDA c : c # tok)

\* str.strip()
Strip(s) ==
    IF \A p \in 1..Len(s) : IsSpace(s[p])
    THEN <<>>
    ELSE LET a == CHOOSE p \in 1..Len(s) : ~IsSpace(s[p]) /\ \A q \in 1..(p - 1) : IsSpace(s[q])
             b == CHOOSE p \in 1..Len(s) : ~IsSpace(s[p]) /\ \A q \in (p + 1)..Len(s) : IsSpace(s[q])
         IN SubSeq(s, a, b)

\* s.split("\n")[0]
FirstLine(s) ==
    LET p == Find(s, NL, 1) IN IF p = 0 THEN s ELSE SubSeq(s, 1, p - 1)

\* s[:n]
Take(s, n) == IF Len(s) <= n THEN s ELSE SubSeq(s, 1, n)

\* --------------------------------------------------------------- placeholders
PadText(n) == Str(PadErrorBase + Digits(n), "pad", n)
UnparsedText(n) == Str(ParseErrorBase + Digits(n), "unparsed", n)
BatchFailText == Str(BatchFailLen, "batchfail", 0)
SingleErrorText(n) == Str(SingleErrorBase + Digits(n), "single_err", n)

\* ------------------------------------------------------ _parse_batch_response
\* A response: fmt "json_list" (json.loads gives a list, items), "json_other"
\* (json.loads gives something that is no list) or "text" (json.loads raises);
\* text is the raw response text the fallback branch searches.
Response(fmt, items, text) == [fmt |-> fmt, items |-> items, text |-> text]

\* A list element: wf says it is a dict holding both keys.
Item(wf, sn, t) == [wf |-> wf, slide_number |-> sn, transcript |-> t]

\* a parser that copies every element of the list
ValidatedUnfiltered(items) ==
    [i \in 1..Len(items) |-> Narration(items[i].slide_number, items[i].transcript)]

\* lines 392-398: keep the dicts holding both keys, copying the two fields
Validated(items) ==
    LET kept == SelectSeq(items, LAMBDA it : it.wf)
    IN [i \in 1..Len(kept) |-> Narration(kept[i].slide_number, kept[i].transcript)]

\* a parser that does not pad a short list
PadToNothing(v, k) == v

\* lines 400-406: pad with error entries numbered by their position
RECURSIVE PadTo(_, _)
PadTo(v, k) ==
    IF Len(v) < k
    THEN PadTo(Append(v, Narration(Len(v) + 1, PadText(Len(v) + 1))), k)
    ELSE v

\* a parser that returns every validated item
TruncateNothing(v, k) == v

\* line 408: validated_transcripts[:expected_count]
Truncate(v, k) == Take(v, k)

ParseJsonList(items, k) == Truncate(PadTo(Validated(items), k), k)

\* lines 424-435: the text between marker i and the next marker
MarkerContent(text, marker, next) ==
    LET start == Find(text, marker, 1)
        end == Find(text, next, start)
        raw == IF end # 0 THEN SubSeq(text, start, end - 1) ELSE SubSeq(text, start, Len(text))
        cleaned == Strip(Remove(raw, marker))
        line == IF Contains(cleaned, NL) THEN Strip(FirstLine(cleaned)) ELSE cleaned
    IN Take(line, MarkerContentLimit)

\* a parser that looks for the Chinese marker only
HasChineseMarkerOnly(text) == Contains(text, Zh(1))

\* line 418
HasSlideOneMarker(text) == Contains(text, Zh(1)) \/ Contains(text, En(1))

\* lines 418-440
ParseByMarkers(text, k) ==
    [i \in 1..k |->
        LET zh == Contains(text, Zh(1))
            marker == IF zh THEN Zh(i) ELSE En(i)
            next == IF zh THEN Zh(i + 1) ELSE En(i + 1)
        IN IF Find(text, marker, 1) # 0
           THEN Narration(i, Str(Len(MarkerContent(text, marker, next)), "marker", i))
           ELSE Narration(i, UnparsedText(i))]

\* lines 443-447
ParseCompleteFallback(k) == [i \in 1..k |-> Narration(i, BatchFailText)]

\* lines 410-449: the except branch
ParseFallback(text, k) ==
    IF HasSlideOneMarker(text) THEN ParseByMarkers(text, k) ELSE ParseCompleteFallback(k)

\* lines 381-449
ParseBatchResponse(resp, k) ==
    IF resp.fmt = "json_list" THEN ParseJsonList(resp.items, k) ELSE ParseFallback(resp.text, k)

\* ------------------------------------------------------- generate_transcript
\* What the vision model does during one generate_transcript call of k slides:
\* batch_ok says one of the RetryAttempts batch requests returned (resp is its
\* text); otherwise each slide is requested on its own, and singles[i] says
\* whether one of its RetryAttempts requests returned, and the answer's length.
NoResponse == Response("none", <<>>, <<>>)
SingleOutcome(ok, len) == [ok |-> ok, len |-> len]
Behaviour(batch_ok, resp, singles) == [batch_ok |-> batch_ok, resp |-> resp, singles |-> singles]

\* lines 202-237
GenerateIndividualTranscripts(singles) ==
    [i \in 1..Len(singles) |->
        IF singles[i].ok
        THEN Narration(i, Str(singles[i].len, "single", i))
        ELSE Narration(i, SingleErrorText(i))]

\* lines 73-98
GenerateTranscript(k, beh) ==
    IF beh.batch_ok
    THEN ParseBatchResponse(beh.resp, k)
    ELSE GenerateIndividualTranscripts(beh.singles)

\* ------------------------------------------------------ pipeline: narrations
Min(a, b) == IF a <= b THEN a ELSE b

FillerLen(band) ==
    CASE band = "opening" -> OpeningFillerLen
      [] band = "closing" -> ClosingFillerLen
      [] band = "early" -> EarlyFillerLen
      [] band = "middle" -> MiddleFillerLen
      [] OTHER -> LateFillerLen

\* lines 410-468: slide_num / total_slides against 0.3 and 0.7
FillerBand(slide_num, total_slides) ==
    IF slide_num = 1 THEN "opening"
    ELSE IF slide_num = total_slides THEN "closing"
    ELSE IF 10 * slide_num < 3 * total_slides THEN "early"
    ELSE IF 10 * slide_num < 7 * total_slides THEN "middle"
    ELSE "late"

\* len(f"\n{short}\n\n{filler}\n".strip())
EnhancedLen(t, band) ==
    IF t.kind = "str" /\ t.lead = t.len
    THEN FillerLen(band)
    ELSE (IF t.kind = "str" THEN t.len - t.lead ELSE IF t.kind = "list" THEN ReprLen(t) ELSE 4)
         + 2 + FillerLen(band)

\* lines 403-470
EnhanceTranscript(t, slide_num, total_slides, min_len) ==
    IF t.len >= min_len
    THEN t
    ELSE LET band == FillerBand(slide_num, total_slides)
         IN Text("str", EnhancedLen(t, band), 0, t.src, t.n, band)

\* lines 381-401
GetFallbackTranscript(slide_num, total_slides) ==
    IF slide_num = 1 THEN Str(FirstFallbackLen, "fallback_first", 0)
    ELSE IF slide_num = total_slides THEN Str(LastFallbackLen, "fallback_last", 0)
    ELSE Str(MiddleFallbackBase + Digits(slide_num), "fallback_middle", slide_num)

\* len(transcript['transcript']) raises TypeError
LenRaises(t) == t.kind = "null"

\* lines 195-203: the length repair of one batch; it raises at the first
\* transcript that has no len()
RepairRaises(batch) == \E j \in 1..Len(batch) : LenRaises(batch[j].transcript)

RepairOne(n, slide_num, total_slides, min_len) ==
    IF n.transcript.len < min_len
    THEN Narration(n.slide_number, EnhanceTranscript(n.transcript, slide_num, total_slides, min_len))
    ELSE n

RepairBatch(batch, start, total_slides, min_len) ==
    [j \in 1..Len(batch) |-> RepairOne(batch[j], start + j, total_slides, min_len)]

\* lines 210-215
FallbackBatch(start, k, total_slides) ==
    [j \in 1..k |-> Narration(start + j, GetFallbackTranscript(start + j, total_slides))]

\* a loop that keeps the narrations repaired before the one that raised
BatchNarrationsKeepingRepaired(got, start, k, total_slides, min_len) ==
    LET bad == {j \in 1..Len(got) : LenRaises(got[j].transcript)}
        first == IF bad = {} THEN Len(got) + 1
                 ELSE CHOOSE j \in bad : \A i \in bad : j <= i
    IN  [j \in 1..k |->
            IF j < first
            THEN RepairOne(got[j], start + j, total_slides, min_len)
            ELSE Narration(start + j, GetFallbackTranscript(start + j, total_slides))]

\* lines 186-215: what one batch appends to all_transcripts
BatchNarrations(got, start, k, total_slides, min_len) ==
    IF RepairRaises(got)
    THEN FallbackBatch(start, k, total_slides)
    ELSE RepairBatch(got, start, total_slides, min_len)

\* a context that summarises the oldest narrations
OldestTranscripts(previous) == Take(previous, RecentSummaries)

\* line 364: the transcripts summarised in the context
RecentTranscripts(previous) ==
    IF Len(previous) > RecentSummaries
    THEN SubSeq(previous, Len(previous) - RecentSummaries + 1, Len(previous))
    ELSE previous

\* line 371: content[:100] + "..." if len(content) > 100 else content
SummaryRaises(t) == t.kind = "null" \/ (t.kind # "str" /\ t.len > SummaryChars)
SummaryLen(t) == IF t.len > SummaryChars THEN SummaryChars + 3 ELSE t.len

\* content[:100]: the narration cut after SummaryChars characters
SummaryHead(t) == [t EXCEPT !.len = Min(t.len, SummaryChars)]

\* lines 350-357
PositionHint(current_batch_start, total_slides) ==
    IF 10 * (current_batch_start + 1) <= 3 * total_slides THEN "early"
    ELSE IF 10 * (current_batch_start + 1) <= 7 * total_slides THEN "middle"
    ELSE "late"

\* lines 334-379
BuildBatchContextRaises(previous) ==
    \E i \in 1..Len(RecentTranscripts(previous)) :
        SummaryRaises(RecentTranscripts(previous)[i].transcript)

BuildBatchContext(previous, current_batch_start, total_slides, current_batch_end) ==
    [first |-> current_batch_start + 1,
     last |-> current_batch_end,
     hint |-> PositionHint(current_batch_start, total_slides),
     summaries |-> [i \in 1..Len(RecentTranscripts(previous)) |->
                       [slide_number |-> RecentTranscripts(previous)[i].slide_number,
                        head |-> SummaryHead(RecentTranscripts(previous)[i].transcript),
                        chars |-> SummaryLen(RecentTranscripts(previous)[i].transcript)]]]

\* ------------------------------------------------------------ the compositor
\* a compositor without the length check
LengthsNeverChecked(images, audio) == TRUE

\* line 70: len(images) != len(audio_files)
LengthsMatch(images, audio) == Len(images) = Len(audio)

\* line 100: zip(image_paths, audio_files)
SegmentCount(images, audio) == Min(Len(images), Len(audio))

\* An external process started by synthesize, and how it ended
Proc(kind, seg, image, clip, filters, result) ==
    [kind |-> kind, seg |-> seg, image |-> image, clip |-> clip, filters |-> filters,
     result |-> result]

\* a segment loop that does not look at what ffmpeg did
SegmentCreatedUnchecked(outcome) == outcome # "probe_raises"

\* lines 144-150: ffmpeg exited with 0 and the segment file exists
SegmentCreated(outcome) == outcome = "ok"

\* a compositor that fades every clip in
FadeInEveryClip(i, n, fin, fout) ==
    (IF fin THEN {"fade_in"} ELSE {}) \cup (IF fout /\ i = n THEN {"fade_out"} ELSE {})

\* lines 131-135: the fade filters of segment i (1-based) of n
FadeFilters(i, n, fin, fout) ==
    (IF fin /\ i = 1 THEN {"fade_in"} ELSE {}) \cup (IF fout /\ i = n THEN {"fade_out"} ELSE {})

\* ------------------------------------------------------------------- inputs
\* Values the vision model may put under "transcript", and list elements
LongText == Text("str", 250, 0, "model", 0, "none")
ShortText == Text("str", 50, 0, "model", 0, "none")
ListValue == Text("list", 150, 0, "model", 0, "none")
NullValue == Text("null", 0, 0, "model", 0, "none")

JsonItems ==
    {Item(TRUE, 1, LongText), Item(TRUE, 2, ShortText), Item(TRUE, 1, ListValue),
     Item(TRUE, 2, NullValue), Item(FALSE, 0, NullValue)}

JsonLists == UNION {[1..n -> JsonItems] : n \in 0..MaxItems}

Tokens == {Zh(1), Zh(2), En(1), En(2), Ch, NL}

RawTexts == UNION {[1..n -> Tokens] : n \in 0..MaxTextLen}

Responses ==
    {Response("json_list", l, <<>>) : l \in JsonLists}
    \cup {Response(f, <<>>, t) : f \in {"json_other", "text"}, t \in RawTexts}

SingleOutcomes == {SingleOutcome(TRUE, 250), SingleOutcome(TRUE, 50), SingleOutcome(FALSE, 0)}

Behaviours(k) ==
    {Behaviour(TRUE, r, <<>>) : r \in Responses}
    \cup {Behaviour(FALSE, NoResponse, s) : s \in [1..k -> SingleOutcomes]}

\* every request of the call raised
IsOutage(beh) == ~beh.batch_ok /\ \A i \in 1..Len(beh.singles) : ~beh.singles[i].ok

\* What one generate_transcript call over k slides can return, over every
\* behaviour of the model, with whether every request of the call raised
CallResult(got, all_raised) == [got |-> got, all_raised |-> all_raised]

CallResults ==
    [k \in 1..MaxSlides |->
        {CallResult(GenerateTranscript(k, beh), IsOutage(beh)) : beh \in Behaviours(k)}]

MinLengths == {50, DefaultMinLength}

BatchSizes == 1..(MaxSlides + 1)

\* -------------------------------------------------------------------- state
VARIABLES
    pc,                     \* where PPTToVideoPipeline.process stands
    num_slides,             \* slides of the deck
    batch_size,             \* config.batch_size
    min_transcript_length,  \* config.min_transcript_length
    stages,                 \* the stages started, in order
    all_transcripts,        \* _generate_transcripts: the accumulated narrations
    batch_start,            \* _generate_transcripts: the loop variable
    outage,                 \* every model request of the run raised so far
    batch_contexts,         \* _generate_transcripts: the batch_context of every batch so far
    batch_results,          \* _generate_transcripts: what generate_transcript returned, by batch
    speech_i,               \* _generate_speech: the loop index (1-based)
    audio_files,            \* _generate_speech: the paths appended, by slide number
    audio_fs,               \* audio_NNN.wav on disk: the narration it was made from, 0 if absent
    syn_pc,                 \* where VideoSynthesizer.synthesize stands
    syn_images,             \* synthesize: images
    syn_audio,              \* synthesize: audio_files
    syn_i,                  \* synthesize: the segment loop index (1-based)
    syn_procs,              \* external processes started by synthesize
    syn_output,             \* the output video exists
    fade_in,
    fade_out,
    save_intermediates,     \* config.save_intermediates
    use_voice_clone,        \* config.use_voice_clone
    reference_audio_path,   \* config.reference_audio_path: "none", "missing" (no such file), "file"
    reference_text,         \* config.reference_text: "none", "text"
    voice_id,               \* config.voice_id
    progress,               \* the fractions passed to progress_callback, in tenths
    images_dir,             \* output_dir/images
    transcripts_dir,        \* output_dir/transcripts
    audio_dir,              \* output_dir/audio exists
    speech_calls,           \* the calls _generate_speech made to the speech plugin
    main_pc,                \* where run_pipeline.main stands; "direct": the pipeline is used without it
    options,                \* the other options PipelineConfig.validate reads
    cli_args,               \* the command line of run_pipeline.py
    config_errors,          \* the configuration errors printed
    sp_pc,                  \* where a call of SpeechSynthesisPlugin.synthesize stands
    sp_args,                \* synthesize: text and voice arguments
    sp_output_path,         \* synthesize: an output_path was given
    sp_outcomes,            \* synthesize: how each attempt ended, in order
    sp_requests,            \* synthesize: the requests posted to the service
    sp_file,                \* synthesize: the audio file was written
    sp_error,               \* synthesize: the error raised to the caller
    bt_pc,                  \* where a call of batch_synthesize stands
    bt_texts,               \* batch_synthesize: texts
    bt_reference_id,        \* batch_synthesize: reference_id
    bt_output_dir,          \* batch_synthesize: an output_dir was given
    bt_i,                   \* batch_synthesize: the loop index (1-based)
    bt_attempted,           \* batch_synthesize: how the synthesize call of each item ended
    bt_results,             \* batch_synthesize: results
    dur_pc,                 \* where a call of _get_audio_duration stands
    dur_primary,            \* what running ffprobe does
    dur_secondary,          \* what running ffmpeg -i does
    dur_result,             \* the duration returned
    parse_pc,               \* a direct call of _parse_batch_response
    parse_resp,
    parse_k,
    parse_out,
    cv_pc,                  \* where a call of PPTParser._parse_pptx stands
    has_libreoffice,        \* PPTParser.has_libreoffice
    has_unoconv,            \* PPTParser.has_unoconv
    cv_input,               \* the presentation file: "empty", "deck"
    cv_output,              \* the file at output_path: "absent", "empty", "pdf"
    cv_expected,            \* the file at expected_pdf, in the directory of output_path
    cv_success,             \* _convert_to_pdf: success
    cv_cmds,                \* _convert_to_pdf: the conversion methods run, in order
    cv_error,               \* the error of the call: "none", "input", "convert", "images"
    en_pc,                  \* where a direct call of _enhance_transcript stands
    en_short,               \* _enhance_transcript: short_transcript
    en_slide,               \* _enhance_transcript: slide_num
    en_total,               \* _enhance_transcript: total_slides
    en_result,              \* _enhance_transcript: the value returned
    rq_pc,                  \* where a call of TranscriptGenerator.generate_transcript stands
    rq_k,                   \* generate_transcript: len(images)
    rq_encodable,           \* _image_to_base64 accepts the images
    rq_slide,               \* _generate_individual_transcripts: the loop index (1-based)
    rq_attempt,             \* attempts the retrying call in progress has made
    rq_requests,            \* the requests sent to the vision model, in order
    api_retry_attempts      \* config.api_retry_attempts

vars ==
    <<pc, num_slides, batch_size, min_transcript_length, stages, all_transcripts,
      batch_start, outage, batch_contexts, batch_results, speech_i, audio_files, audio_fs, syn_pc, syn_images,
      syn_audio, syn_i, syn_procs, syn_output, fade_in, fade_out, parse_pc,
      parse_resp, parse_k, parse_out, save_intermediates, use_voice_clone,
      reference_audio_path, reference_text, voice_id, progress, images_dir,
      transcripts_dir, audio_dir, speech_calls, main_pc, options, cli_args, config_errors,
      sp_pc, sp_args, sp_output_path, sp_outcomes, sp_requests, sp_file, sp_error, bt_pc,
      bt_texts, bt_reference_id, bt_output_dir, bt_i, bt_attempted, bt_results, dur_pc, dur_primary,
      dur_secondary, dur_result, cv_pc, has_libreoffice, has_unoconv, cv_input, cv_output,
      cv_expected, cv_success, cv_cmds, cv_error, en_pc, en_short, en_slide, en_total,
      en_result, rq_pc, rq_k, rq_encodable, rq_slide, rq_attempt, rq_requests,
      api_retry_attempts>>

configVars ==
    <<num_slides, batch_size, min_transcript_length, fade_in, fade_out, save_intermediates,
      use_voice_clone, reference_audio_path, reference_text, voice_id>>
narrateVars == <<all_transcripts, batch_start, outage, batch_contexts, batch_results>>
speechVars == <<speech_i, audio_files, audio_fs, audio_dir, speech_calls>>
runVars == <<progress, images_dir, transcripts_dir>>
mainVars == <<main_pc, options, cli_args, config_errors>>
pluginVars == <<sp_pc, sp_args, sp_output_path, sp_outcomes, sp_requests, sp_file, sp_error>>
batchVars ==
    <<bt_pc, bt_texts, bt_reference_id, bt_output_dir, bt_i, bt_attempted, bt_results>>
probeVars == <<dur_pc, dur_primary, dur_secondary, dur_result>>
convertVars ==
    <<cv_pc, has_libreoffice, has_unoconv, cv_input, cv_output, cv_expected, cv_success,
      cv_cmds, cv_error>>
enhanceVars == <<en_pc, en_short, en_slide, en_total, en_result>>
requestVars ==
    <<rq_pc, rq_k, rq_encodable, rq_slide, rq_attempt, rq_requests, api_retry_attempts>>
unitVars == <<convertVars, enhanceVars, requestVars>>
libVars == <<pluginVars, batchVars, probeVars, unitVars>>
synVars == <<syn_pc, syn_images, syn_audio, syn_i, syn_procs, syn_output>>
parseVars == <<parse_pc, parse_resp, parse_k, parse_out>>

NoAudio == [p \in 1..(MaxSlides + 1) |-> 0]

SynIdle ==
    /\ syn_pc = "idle"
    /\ syn_images = <<>>
    /\ syn_audio = <<>>
    /\ syn_i = 0
    /\ syn_procs = <<>>
    /\ syn_output = FALSE

ParseIdle ==
    /\ parse_pc = "idle"
    /\ parse_resp = NoResponse
    /\ parse_k = 0
    /\ parse_out = <<>>

\* ------------------------------------- SpeechSynthesisPlugin._prepare_request
\* speech_generation.py line 215: a text that is no str is rejected by the request model
SynthesisCanSucceed(t) == t.kind = "str"

\* speech_generation.py line 224
PresetVoices == {"zh_female", "zh_male", "en_male", "en_female"}

\* Python truth of an Optional[str]: None and "" are false
Truthy(v) == v # "none"

SynthesisArgs(text, audio, reftext, id) ==
    [text |-> text, reference_audio_path |-> audio, reference_text |-> reftext,
     reference_id |-> id]

Rejected(error) == [ok |-> FALSE, error |-> error, reference_id |-> "none", references |-> FALSE]

Request(id, references) ==
    [ok |-> TRUE, error |-> "none", reference_id |-> id, references |-> references]

\* speech_generation.py lines 201-231: the request, or the error raised
PrepareRequest(args) ==
    IF ~Truthy(args.reference_id)
       /\ ~(Truthy(args.reference_audio_path) /\ Truthy(args.reference_text))
    THEN Rejected("usage")
    ELSE IF ~SynthesisCanSucceed(args.text) THEN Rejected("validation")
    ELSE IF Truthy(args.reference_audio_path) /\ Truthy(args.reference_text)
    THEN (IF args.reference_audio_path = "missing"
          THEN Rejected("file_not_found")
          ELSE Request("none", TRUE))
    ELSE IF args.reference_id \notin PresetVoices THEN Rejected("invalid_voice")
    ELSE Request(args.reference_id, FALSE)

\* pipeline_config.py lines 12-68: the defaults; fractions are kept in tenths
DefaultOptions ==
    [ppt_dpi |-> 300, max_tokens |-> 3000, temperature |-> 8,
     transcript_style |-> "professional", speech_speed |-> 10, speech_volume |-> 10,
     speech_pitch |-> 0, video_fps |-> 30, video_width |-> 1920, video_height |-> 1080,
     transition_duration |-> 5]

\* run_pipeline.py lines 23-25: --voice-clone, --reference-audio, --reference-text
Args(voice_clone, audio, reftext) ==
    [voice_clone |-> voice_clone, reference_audio |-> audio, reference_text |-> reftext]

NoArgs == Args(FALSE, "none", "none")

\* no call of SpeechSynthesisPlugin.synthesize is in progress
PluginIdle ==
    /\ sp_pc = "idle"
    /\ sp_args = SynthesisArgs(NullValue, "none", "none", "none")
    /\ sp_output_path = FALSE
    /\ sp_outcomes = <<>>
    /\ sp_requests = <<>>
    /\ sp_file = FALSE
    /\ sp_error = "none"

BatchIdle ==
    /\ bt_pc = "idle"
    /\ bt_texts = <<>>
    /\ bt_reference_id = "none"
    /\ bt_output_dir = FALSE
    /\ bt_i = 0
    /\ bt_attempted = <<>>
    /\ bt_results = <<>>

ProbeIdle ==
    /\ dur_pc = "idle"
    /\ dur_primary = [kind |-> "none", value |-> 0]
    /\ dur_secondary = [kind |-> "none", value |-> 0]
    /\ dur_result = 0

ConvertIdle ==
    /\ cv_pc = "idle"
    /\ has_libreoffice = TRUE
    /\ has_unoconv = FALSE
    /\ cv_input = "deck"
    /\ cv_output = "absent"
    /\ cv_expected = "absent"
    /\ cv_success = FALSE
    /\ cv_cmds = <<>>
    /\ cv_error = "none"

EnhanceIdle ==
    /\ en_pc = "idle"
    /\ en_short = NullValue
    /\ en_slide = 1
    /\ en_total = 1
    /\ en_result = NullValue

RequestIdle ==
    /\ rq_pc = "idle"
    /\ rq_k = 0
    /\ rq_encodable = TRUE
    /\ rq_slide = 0
    /\ rq_attempt = 0
    /\ rq_requests = <<>>
    /\ api_retry_attempts = DefaultApiRetryAttempts

UnitsIdle == ConvertIdle /\ EnhanceIdle /\ RequestIdle

LibIdle == PluginIdle /\ BatchIdle /\ ProbeIdle /\ UnitsIdle

\* the pipeline is constructed by the caller, not by run_pipeline.main
MainAbsent ==
    /\ main_pc = "direct"
    /\ options = DefaultOptions
    /\ cli_args = NoArgs
    /\ config_errors = {}

\* a directory: whether it exists and the files in it
Dir(exists, files) == [exists |-> exists, files |-> files]

\* lines 49-56: the subdirectories are created only to keep the intermediates
ConstructedDirs ==
    /\ images_dir = Dir(save_intermediates, {})
    /\ transcripts_dir = Dir(save_intermediates, {})
    /\ audio_dir = save_intermediates

\* pipeline_config.py lines 35-58: the preset voice, no voice cloning
DefaultVoiceOptions ==
    /\ use_voice_clone = FALSE
    /\ reference_audio_path = "none"
    /\ reference_text = "none"
    /\ voice_id = "zh_female"

PipelineIdle ==
    /\ pc = "idle"
    /\ progress = <<>>
    /\ speech_calls = <<>>
    /\ ConstructedDirs
    /\ stages = <<>>
    /\ all_transcripts = <<>>
    /\ batch_start = 0
    /\ outage = TRUE
    /\ batch_contexts = <<>>
    /\ batch_results = <<>>
    /\ speech_i = 0
    /\ audio_files = <<>>
    /\ audio_fs = NoAudio

\* A pipeline constructed from a valid configuration, before process is called
Init ==
    /\ num_slides \in 1..MaxSlides
    /\ batch_size \in BatchSizes
    /\ min_transcript_length \in MinLengths
    /\ fade_in = TRUE
    /\ fade_out = TRUE
    /\ save_intermediates \in BOOLEAN
    /\ DefaultVoiceOptions
    /\ MainAbsent
    /\ LibIdle
    /\ PipelineIdle
    /\ SynIdle
    /\ ParseIdle

\* ------------------------------------------------ PPTToVideoPipeline.process
\* lines 218-229: transcripts.json and transcripts.md, both written from the list
SavedTranscripts(transcripts) ==
    {[name |-> "transcripts.json", narrations |-> transcripts],
     [name |-> "transcripts.md", narrations |-> transcripts]}

\* lines 77-87: the call; a missing ppt_path raises before any stage
CallProcess ==
    /\ pc = "idle"
    /\ main_pc \in {"direct", "process"}
    /\ \E exists \in BOOLEAN : pc' = IF exists THEN "s1" ELSE "raised"
    /\ UNCHANGED <<libVars, mainVars, configVars, runVars, stages, narrateVars, speechVars, synVars, parseVars>>

\* lines 90-94 and 135-153: step 1, the rasterizer returns the slide images or raises
Step1ParsePPT ==
    /\ pc = "s1"
    /\ stages' = Append(stages, "rasterize")
    /\ progress' = Append(progress, ParsingProgress)
    /\ \E ok \in BOOLEAN :
         /\ pc' = IF ok THEN "s2" ELSE "raised"
         /\ images_dir' = IF ok /\ save_intermediates
                          THEN Dir(TRUE, 1..num_slides)
                          ELSE images_dir
    /\ UNCHANGED <<libVars, mainVars, configVars, transcripts_dir, narrateVars, speechVars, synVars, parseVars>>

\* lines 96-100 and 160-168: step 2 enters _generate_transcripts
Step2Begin ==
    /\ pc = "s2"
    /\ pc' = "gen"
    /\ stages' = Append(stages, "narrate")
    /\ progress' = Append(progress, TranscriptsProgress)
    /\ all_transcripts' = <<>>
    /\ batch_start' = 0
    /\ batch_contexts' = <<>>
    /\ batch_results' = <<>>
    /\ UNCHANGED <<libVars, mainVars, configVars, images_dir, transcripts_dir, outage, speechVars, synVars, parseVars>>

\* lines 170-215: one iteration of the batch loop, generate_transcript
\* returning one of results[k] for a batch of k slides
GenerateBatchFrom(results) ==
    /\ pc = "gen"
    /\ batch_start < num_slides
    /\ ~BuildBatchContextRaises(all_transcripts)
    /\ LET k == Min(batch_size, num_slides - batch_start)
       IN /\ batch_contexts' =
                 Append(batch_contexts,
                        BuildBatchContext(all_transcripts, batch_start, num_slides,
                                          batch_start + k))
          /\ \E res \in results[k] :
               /\ batch_results' = Append(batch_results, res.got)
               /\ all_transcripts' =
                      all_transcripts \o BatchNarrations(res.got, batch_start, k, num_slides,
                                                         min_transcript_length)
               /\ outage' = (outage /\ res.all_raised)
    /\ batch_start' = batch_start + batch_size
    /\ UNCHANGED <<pc, libVars, mainVars, configVars, runVars, stages, speechVars, synVars, parseVars>>

GenerateBatch == GenerateBatchFrom(CallResults)

\* lines 178-184: _build_batch_context raises outside the try of the loop body
GenerateContextError ==
    /\ pc = "gen"
    /\ batch_start < num_slides
    /\ BuildBatchContextRaises(all_transcripts)
    /\ pc' = "raised"
    /\ UNCHANGED <<libVars, mainVars, configVars, runVars, stages, narrateVars, speechVars, synVars, parseVars>>

\* a process that goes from the narrations straight to the compositor
GenerateReturnSkippingSpeech ==
    /\ pc = "gen"
    /\ batch_start >= num_slides
    /\ pc' = "s4"
    /\ UNCHANGED <<libVars, mainVars, configVars, runVars, stages, narrateVars, speechVars, synVars, parseVars>>

\* lines 217-232: the loop is over, _generate_transcripts returns
GenerateReturn ==
    /\ pc = "gen"
    /\ batch_start >= num_slides
    /\ pc' = "s3"
    /\ transcripts_dir' = IF save_intermediates
                          THEN Dir(TRUE, SavedTranscripts(all_transcripts))
                          ELSE transcripts_dir
    /\ UNCHANGED <<libVars, mainVars, configVars, progress, images_dir, stages, narrateVars, speechVars, synVars, parseVars>>

\* lines 105-109 and 234-250: step 3 enters _generate_speech
Step3Begin ==
    /\ pc = "s3"
    /\ pc' = "speech"
    /\ stages' = Append(stages, "speech")
    /\ progress' = Append(progress, SpeechProgress)
    /\ speech_i' = 1
    /\ audio_files' = <<>>
    /\ speech_calls' = <<>>
    /\ UNCHANGED <<libVars, mainVars, configVars, images_dir, transcripts_dir, narrateVars, audio_fs, audio_dir,
                   synVars, parseVars>>

\* a speech stage that clones whenever cloning is switched on
UseCloneWheneverEnabled(enabled, audio, reftext) == enabled

\* lines 238-248: cloning needs the switch and both reference fields
UseClone(enabled, audio, reftext) ==
    IF enabled
    THEN (IF ~Truthy(audio) \/ ~Truthy(reftext) THEN FALSE ELSE TRUE)
    ELSE FALSE

\* lines 259-280: the arguments of the call to SpeechSynthesisPlugin.synthesize
SpeechArgs(text) ==
    IF UseClone(use_voice_clone, reference_audio_path, reference_text)
    THEN SynthesisArgs(text, reference_audio_path, reference_text, "none")
    ELSE SynthesisArgs(text, "none", "none", voice_id)

\* lines 252-289: one iteration of the speech loop
SpeechSlide ==
    /\ pc = "speech"
    /\ speech_i <= Len(all_transcripts)
    /\ LET slide_num == all_transcripts[speech_i].slide_number
           args == SpeechArgs(all_transcripts[speech_i].transcript)
       IN /\ speech_calls' = Append(speech_calls, args)
          /\ \E ok \in BOOLEAN :
               IF ok /\ PrepareRequest(args).ok
               THEN /\ audio_fs' = [audio_fs EXCEPT ![slide_num] = speech_i]
                    /\ audio_files' = Append(audio_files, slide_num)
                    /\ audio_dir' = TRUE
               ELSE UNCHANGED <<audio_fs, audio_files, audio_dir>>
    /\ speech_i' = speech_i + 1
    /\ UNCHANGED <<pc, libVars, mainVars, configVars, runVars, stages, narrateVars, synVars, parseVars>>

\* lines 291-292
SpeechReturn ==
    /\ pc = "speech"
    /\ speech_i > Len(all_transcripts)
    /\ pc' = "s4"
    /\ UNCHANGED <<libVars, mainVars, configVars, runVars, stages, narrateVars, speechVars, synVars, parseVars>>

\* line 116: slide_images[:len(audio_files)]
ImagesForVideo(n_slides, audio) == [i \in 1..Min(n_slides, Len(audio)) |-> i]

\* lines 111-119 and 294-310: step 4 calls the compositor
Step4Begin ==
    /\ pc = "s4"
    /\ pc' = "synth"
    /\ stages' = Append(stages, "composite")
    /\ progress' = Append(progress, VideoProgress)
    /\ syn_pc' = "entry"
    /\ syn_images' = ImagesForVideo(num_slides, audio_files)
    /\ syn_audio' = audio_files
    /\ syn_i' = 0
    /\ syn_procs' = <<>>
    /\ syn_output' = FALSE
    /\ UNCHANGED <<libVars, mainVars, configVars, images_dir, transcripts_dir, narrateVars, speechVars, parseVars>>

\* ------------------------------------------------ VideoSynthesizer.synthesize
\* lines 67-96: the length check, then the images are resized into the temp dir
SynthCheck ==
    /\ syn_pc = "entry"
    /\ IF LengthsMatch(syn_images, syn_audio)
       THEN syn_pc' = "segments" /\ syn_i' = 1
       ELSE syn_pc' = "raised" /\ syn_i' = syn_i
    /\ UNCHANGED <<pc, libVars, mainVars, configVars, runVars, stages, narrateVars, speechVars, syn_images, syn_audio,
                   syn_procs, syn_output, parseVars>>

SegmentOutcomes == {"ok", "probe_raises", "encode_fails", "no_segment_file"}

\* lines 100-153: one iteration of the segment loop
SynthSegment ==
    /\ syn_pc = "segments"
    /\ syn_i <= SegmentCount(syn_images, syn_audio)
    /\ \E outcome \in SegmentOutcomes :
         LET probe == Proc("probe", syn_i, 0, audio_fs[syn_audio[syn_i]], {},
                           IF outcome = "probe_raises" THEN "raised" ELSE "ok")
             encode == Proc("encode", syn_i, syn_images[syn_i], audio_fs[syn_audio[syn_i]],
                            FadeFilters(syn_i, Len(syn_images), fade_in, fade_out),
                            CASE outcome = "encode_fails" -> "failed"
                              [] outcome = "no_segment_file" -> "no_file"
                              [] OTHER -> "ok")
         IN /\ syn_procs' = IF outcome = "probe_raises"
                            THEN Append(syn_procs, probe)
                            ELSE syn_procs \o <<probe, encode>>
            /\ IF SegmentCreated(outcome)
               THEN syn_pc' = syn_pc /\ syn_i' = syn_i + 1
               ELSE syn_pc' = "raised" /\ syn_i' = syn_i
    /\ UNCHANGED <<pc, libVars, mainVars, configVars, runVars, stages, narrateVars, speechVars, syn_images, syn_audio,
                   syn_output, parseVars>>

\* lines 155-190: the concatenation of the segments
SynthConcat ==
    /\ syn_pc = "segments"
    /\ syn_i > SegmentCount(syn_images, syn_audio)
    /\ \E ok \in BOOLEAN :
         /\ syn_procs' = Append(syn_procs, Proc("concat", syn_i - 1, 0, 0, {},
                                                IF ok THEN "ok" ELSE "failed"))
         /\ syn_pc' = IF ok THEN "returned" ELSE "raised"
         /\ syn_output' = ok
    /\ UNCHANGED <<pc, libVars, mainVars, configVars, runVars, stages, narrateVars, speechVars, syn_images, syn_audio,
                   syn_i, parseVars>>

\* lines 115-119: the compositor returned the video path
Step4Return ==
    /\ pc = "synth"
    /\ syn_pc = "returned"
    /\ pc' = "s5"
    /\ UNCHANGED <<libVars, mainVars, configVars, runVars, stages, narrateVars, speechVars, synVars, parseVars>>

\* a process that removes the intermediates on its way out
Step4RaiseCleaningUp ==
    /\ pc = "synth"
    /\ syn_pc = "raised"
    /\ pc' = "raised"
    /\ images_dir' = IF save_intermediates THEN images_dir ELSE Dir(FALSE, {})
    /\ transcripts_dir' = IF save_intermediates THEN transcripts_dir ELSE Dir(FALSE, {})
    /\ audio_dir' = (save_intermediates /\ audio_dir)
    /\ audio_fs' = IF save_intermediates THEN audio_fs ELSE NoAudio
    /\ UNCHANGED <<libVars, mainVars, configVars, progress, stages, narrateVars, speech_i,
                   audio_files, speech_calls, synVars, parseVars>>

\* lines 131-133: the compositor raised, process re-raises
Step4Raise ==
    /\ pc = "synth"
    /\ syn_pc = "raised"
    /\ pc' = "raised"
    /\ UNCHANGED <<libVars, mainVars, configVars, runVars, stages, narrateVars, speechVars, synVars, parseVars>>

\* lines 472-478: the directories _cleanup_intermediates has to remove, in order
ExistingDirs ==
    (IF images_dir.exists THEN <<"images">> ELSE <<>>)
    \o (IF transcripts_dir.exists THEN <<"transcripts">> ELSE <<>>)
    \o (IF audio_dir THEN <<"audio">> ELSE <<>>)

\* lines 121-129 and 472-478: 1.0 is reported, then the intermediates are
\* removed unless they are kept; removed is how many directories shutil.rmtree
\* removed before it raised, or all of them
Step5Finish ==
    /\ pc = "s5"
    /\ progress' = Append(progress, CompleteProgress)
    /\ IF save_intermediates
       THEN /\ pc' = "done"
            /\ UNCHANGED <<images_dir, transcripts_dir, audio_dir, audio_fs>>
       ELSE \E removed \in 0..Len(ExistingDirs) :
              LET gone == {ExistingDirs[i] : i \in 1..removed}
              IN /\ pc' = IF removed = Len(ExistingDirs) THEN "done" ELSE "raised"
                 /\ images_dir' = IF "images" \in gone THEN Dir(FALSE, {}) ELSE images_dir
                 /\ transcripts_dir' =
                        IF "transcripts" \in gone THEN Dir(FALSE, {}) ELSE transcripts_dir
                 /\ audio_dir' = IF "audio" \in gone THEN FALSE ELSE audio_dir
                 /\ audio_fs' = IF "audio" \in gone THEN NoAudio ELSE audio_fs
    /\ UNCHANGED <<libVars, mainVars, configVars, stages, narrateVars, speech_i, audio_files, speech_calls,
                   synVars, parseVars>>

Next ==
    \/ CallProcess
    \/ Step1ParsePPT
    \/ Step2Begin
    \/ GenerateBatch
    \/ GenerateContextError
    \/ GenerateReturn
    \/ Step3Begin
    \/ SpeechSlide
    \/ SpeechReturn
    \/ Step4Begin
    \/ SynthCheck
    \/ SynthSegment
    \/ SynthConcat
    \/ Step4Return
    \/ Step4Raise
    \/ Step5Finish

Spec == Init /\ [][Next]_vars

\* ------------------------------- _generate_transcripts over a longer deck
\* what the vision model answers for a slide: a long narration, a short one,
\* or null under "transcript"
DeckItems == {Item(TRUE, 1, LongText), Item(TRUE, 2, ShortText), Item(TRUE, 2, NullValue)}

\* generate_transcript over k slides, the batch request answered by a JSON list
DeckResults ==
    [k \in 1..MaxBatch |->
        {CallResult(GenerateTranscript(k, Behaviour(TRUE, Response("json_list", l, <<>>), <<>>)),
                    FALSE) : l \in [1..k -> DeckItems]}]

\* the rasterizer has returned the images of a deck of up to MaxDeck slides
NarrateInit ==
    /\ num_slides \in 1..MaxDeck
    /\ batch_size \in 1..MaxBatch
    /\ min_transcript_length = DefaultMinLength
    /\ fade_in = TRUE
    /\ fade_out = TRUE
    /\ save_intermediates = TRUE
    /\ DefaultVoiceOptions
    /\ MainAbsent
    /\ LibIdle
    /\ SynIdle
    /\ ParseIdle
    /\ pc = "s2"
    /\ stages = <<"rasterize">>
    /\ progress = <<ParsingProgress>>
    /\ images_dir = Dir(TRUE, 1..num_slides)
    /\ transcripts_dir = Dir(TRUE, {})
    /\ audio_dir = TRUE
    /\ speech_calls = <<>>
    /\ all_transcripts = <<>>
    /\ batch_start = 0
    /\ outage = TRUE
    /\ batch_contexts = <<>>
    /\ batch_results = <<>>
    /\ speech_i = 0
    /\ audio_files = <<>>
    /\ audio_fs = NoAudio

NarrateBatch == GenerateBatchFrom(DeckResults)

NarrateNext ==
    \/ Step2Begin
    \/ NarrateBatch
    \/ GenerateReturn

SpecNarrate == NarrateInit /\ [][NarrateNext]_vars

\* ------------------------------------- a direct call of _parse_batch_response
ParseInit ==
    /\ num_slides = 1
    /\ batch_size = 1
    /\ min_transcript_length = DefaultMinLength
    /\ fade_in = TRUE
    /\ fade_out = TRUE
    /\ save_intermediates = TRUE
    /\ DefaultVoiceOptions
    /\ MainAbsent
    /\ LibIdle
    /\ PipelineIdle
    /\ SynIdle
    /\ parse_pc = "call"
    /\ parse_resp \in Responses
    /\ parse_k \in 1..MaxCount
    /\ parse_out = <<>>

\* lines 381-449
ParseCall ==
    /\ parse_pc = "call"
    /\ parse_out' = ParseBatchResponse(parse_resp, parse_k)
    /\ parse_pc' = "returned"
    /\ UNCHANGED <<pc, libVars, mainVars, configVars, runVars, stages, narrateVars, speechVars, synVars, parse_resp, parse_k>>

ParseNext == ParseCall

SpecParse == ParseInit /\ [][ParseNext]_vars

\* ------------------------------- a direct call of VideoSynthesizer.synthesize
SynthInit ==
    /\ num_slides = 1
    /\ batch_size = 1
    /\ min_transcript_length = DefaultMinLength
    /\ fade_in \in BOOLEAN
    /\ fade_out \in BOOLEAN
    /\ save_intermediates = TRUE
    /\ DefaultVoiceOptions
    /\ MainAbsent
    /\ LibIdle
    /\ progress = <<>>
    /\ speech_calls = <<>>
    /\ ConstructedDirs
    /\ pc = "idle"
    /\ stages = <<>>
    /\ all_transcripts = <<>>
    /\ batch_start = 0
    /\ outage = TRUE
    /\ batch_contexts = <<>>
    /\ batch_results = <<>>
    /\ speech_i = 0
    /\ audio_files = <<>>
    /\ audio_fs = [p \in 1..(MaxSlides + 1) |-> p]
    /\ ParseIdle
    /\ syn_pc = "entry"
    /\ \E n \in 0..MaxClips : syn_images = [i \in 1..n |-> i]
    /\ \E m \in 0..Min(MaxClips, MaxSlides + 1) : syn_audio = [i \in 1..m |-> i]
    /\ syn_i = 0
    /\ syn_procs = <<>>
    /\ syn_output = FALSE

SynthNext ==
    \/ SynthCheck
    \/ SynthSegment
    \/ SynthConcat

SpecSynth == SynthInit /\ [][SynthNext]_vars

\* ------------------------------------------ the speech stage, for every voice
\* configuration: process has the narrations and is about to call _generate_speech
SpeechTexts == {LongText, ListValue}

ReferenceAudioPaths == {"none", "missing", "file"}

ReferenceTexts == {"none", "text"}

VoiceIds == {"zh_female", "en_male"}

SpeechInit ==
    /\ num_slides \in 1..MaxSlides
    /\ batch_size = MaxSlides
    /\ min_transcript_length = DefaultMinLength
    /\ fade_in = TRUE
    /\ fade_out = TRUE
    /\ save_intermediates \in BOOLEAN
    /\ use_voice_clone \in BOOLEAN
    /\ reference_audio_path \in ReferenceAudioPaths
    /\ reference_text \in ReferenceTexts
    /\ voice_id \in VoiceIds
    /\ MainAbsent
    /\ LibIdle
    /\ pc = "s3"
    /\ stages = <<"rasterize", "narrate">>
    /\ progress = <<ParsingProgress, TranscriptsProgress>>
    /\ \E texts \in [1..num_slides -> SpeechTexts] :
         all_transcripts = [i \in 1..num_slides |-> Narration(i, texts[i])]
    /\ batch_start = batch_size
    /\ outage = FALSE
    /\ batch_contexts = <<>>
    /\ batch_results = <<>>
    /\ images_dir = Dir(save_intermediates, IF save_intermediates THEN 1..num_slides ELSE {})
    /\ transcripts_dir =
           Dir(save_intermediates,
               IF save_intermediates THEN SavedTranscripts(all_transcripts) ELSE {})
    /\ audio_dir = save_intermediates
    /\ speech_i = 0
    /\ audio_files = <<>>
    /\ audio_fs = NoAudio
    /\ speech_calls = <<>>
    /\ SynIdle
    /\ ParseIdle

SpeechNext ==
    \/ Step3Begin
    \/ SpeechSlide
    \/ SpeechReturn

SpecSpeech == SpeechInit /\ [][SpeechNext]_vars

\* ------------------------------------------ SpeechSynthesisPlugin.synthesize
\* the library is called on its own: the pipeline stays as constructed
PipelineUnused ==
    /\ num_slides = 1
    /\ batch_size = 1
    /\ min_transcript_length = DefaultMinLength
    /\ fade_in = TRUE
    /\ fade_out = TRUE
    /\ save_intermediates = TRUE
    /\ DefaultVoiceOptions
    /\ MainAbsent
    /\ PipelineIdle
    /\ SynIdle
    /\ ParseIdle

\* what client.post does: it raises, or returns a response with a status
\* code and a body holding success and data.audio_base64
ServiceResponse(raised, status, success, audio) ==
    [raised |-> raised, status |-> status, success |-> success, audio_base64 |-> audio]

ServiceResponses ==
    {ServiceResponse(TRUE, 0, 0, "")}
    \cup {ServiceResponse(FALSE, st, su, au) : st \in {200, 500}, su \in {0, 1}, au \in {"", "data"}}

\* lines 243-257: the error _process_response raises, "none" when it returns the audio
ProcessResponse(response) ==
    IF response.status # 200 THEN "status"
    ELSE IF response.success # 1 THEN "failed"
    ELSE IF response.audio_base64 = "" THEN "no_audio"
    ELSE "none"

\* a retry policy that stops one attempt late
StopRetryingLate(attempt_number) == attempt_number > StopAfterAttempt

\* lines 155-159: stop_after_attempt(3)
StopRetrying(attempt_number) == attempt_number >= StopAfterAttempt

PluginTexts == {LongText, ListValue}

ReferenceIds == {"none", "zh_female", "robot"}

PluginArgs ==
    {SynthesisArgs(t, a, r, id) :
        t \in PluginTexts, a \in ReferenceAudioPaths, r \in ReferenceTexts, id \in ReferenceIds}

PluginInit ==
    /\ PipelineUnused
    /\ BatchIdle
    /\ ProbeIdle
    /\ UnitsIdle
    /\ sp_pc = "call"
    /\ sp_args \in PluginArgs
    /\ sp_output_path \in BOOLEAN
    /\ sp_outcomes = <<>>
    /\ sp_requests = <<>>
    /\ sp_file = FALSE
    /\ sp_error = "none"

\* lines 155-199 and 243-270: one attempt of synthesize under the retry decorator
PluginAttempt ==
    /\ sp_pc = "call"
    /\ LET request == PrepareRequest(sp_args)
       IN \E response \in ServiceResponses :
            LET sent == request.ok
                error == IF ~sent THEN request.error
                         ELSE IF response.raised THEN "transport"
                         ELSE ProcessResponse(response)
            IN /\ sp_requests' = IF sent THEN Append(sp_requests, request) ELSE sp_requests
               /\ sp_outcomes' = Append(sp_outcomes, error)
               /\ sp_file' = (sp_file \/ (error = "none" /\ sp_output_path))
               /\ IF error = "none"
                  THEN sp_pc' = "returned" /\ sp_error' = sp_error
                  ELSE IF StopRetrying(Len(sp_outcomes) + 1)
                  THEN sp_pc' = "raised" /\ sp_error' = error
                  ELSE sp_pc' = "call" /\ sp_error' = sp_error
    /\ UNCHANGED <<pc, unitVars, batchVars, probeVars, mainVars, configVars, runVars, stages, narrateVars,
                   speechVars, synVars, parseVars, sp_args, sp_output_path>>

PluginNext == PluginAttempt

SpecPlugin == PluginInit /\ [][PluginNext]_vars

\* ------------------------------------- SpeechSynthesisPlugin.batch_synthesize
\* the bytes b"" of a failed item; the audio of text i is written i
EmptyBytes == 0

\* a batch that drops the items whose synthesis failed
ResultsSkippingFailure(results, i, returned) ==
    IF returned THEN Append(results, i) ELSE results

\* lines 305 and 309: the result appended for item i
ResultsAfterItem(results, i, returned) ==
    Append(results, IF returned THEN i ELSE EmptyBytes)

BatchVoices == {"zh_female", "robot"}

BatchInit ==
    /\ PipelineUnused
    /\ PluginIdle
    /\ ProbeIdle
    /\ UnitsIdle
    /\ bt_pc = "loop"
    /\ bt_texts \in UNION {[1..n -> PluginTexts] : n \in 0..MaxTexts}
    /\ bt_reference_id \in BatchVoices
    /\ bt_output_dir \in BOOLEAN
    /\ bt_i = 1
    /\ bt_attempted = <<>>
    /\ bt_results = <<>>

\* lines 293-304: the loop calls synthesize for the next text
BatchItemCall ==
    /\ bt_pc = "loop"
    /\ bt_i <= Len(bt_texts)
    /\ sp_pc = "idle"
    /\ sp_pc' = "call"
    /\ sp_args' = SynthesisArgs(bt_texts[bt_i], "none", "none", bt_reference_id)
    /\ sp_output_path' = bt_output_dir
    /\ sp_outcomes' = <<>>
    /\ sp_requests' = <<>>
    /\ sp_file' = FALSE
    /\ sp_error' = "none"
    /\ UNCHANGED <<pc, unitVars, batchVars, probeVars, mainVars, configVars, runVars, stages, narrateVars,
                   speechVars, synVars, parseVars>>

\* lines 305-309: synthesize returned the audio, or raised and b"" is appended
BatchItemDone ==
    /\ bt_pc = "loop"
    /\ sp_pc \in {"returned", "raised"}
    /\ bt_results' = ResultsAfterItem(bt_results, bt_i, sp_pc = "returned")
    /\ bt_attempted' = Append(bt_attempted, sp_pc)
    /\ bt_i' = bt_i + 1
    /\ sp_pc' = "idle"
    /\ UNCHANGED <<pc, unitVars, bt_pc, bt_texts, bt_reference_id, bt_output_dir, sp_args, sp_output_path,
                   sp_outcomes, sp_requests, sp_file, sp_error, probeVars, mainVars,
                   configVars, runVars, stages, narrateVars, speechVars, synVars, parseVars>>

\* line 311
BatchReturn ==
    /\ bt_pc = "loop"
    /\ bt_i > Len(bt_texts)
    /\ sp_pc = "idle"
    /\ bt_pc' = "returned"
    /\ UNCHANGED <<pc, unitVars, bt_texts, bt_reference_id, bt_output_dir, bt_i, bt_attempted,
                   bt_results, pluginVars, probeVars, mainVars, configVars, runVars, stages,
                   narrateVars, speechVars, synVars, parseVars>>

BatchNext ==
    \/ BatchItemCall
    \/ PluginAttempt
    \/ BatchItemDone
    \/ BatchReturn

SpecBatch == BatchInit /\ [][BatchNext]_vars

\* ---------------------------------------- VideoSynthesizer._get_audio_duration
\* what running a probe does, and the duration in seconds it prints
ProbeRun(kind, value) == [kind |-> kind, value |-> value]

Durations == 1..MaxDuration

\* lines 211-212: ffprobe prints the duration, exits with a non-zero status,
\* prints something float() rejects, or cannot be executed
PrimaryRuns ==
    {ProbeRun("ok", d) : d \in Durations}
    \cup {ProbeRun(k, 0) : k \in {"nonzero_exit", "unparsable", "not_found"}}

\* lines 220-224: ffmpeg -i prints a Duration line or none, or cannot be executed
SecondaryRuns ==
    {ProbeRun("duration", d) : d \in Durations}
    \cup {ProbeRun(k, 0) : k \in {"no_duration", "not_found"}}

\* line 215: except (subprocess.CalledProcessError, ValueError)
PrimaryErrorCaught(kind) == kind \in {"nonzero_exit", "unparsable"}

ProbeInit ==
    /\ PipelineUnused
    /\ PluginIdle
    /\ BatchIdle
    /\ UnitsIdle
    /\ dur_pc = "call"
    /\ dur_primary \in PrimaryRuns
    /\ dur_secondary \in SecondaryRuns
    /\ dur_result = 0

\* lines 202-217: the primary probe
ProbePrimary ==
    /\ dur_pc = "call"
    /\ IF dur_primary.kind = "ok"
       THEN dur_pc' = "returned" /\ dur_result' = dur_primary.value
       ELSE IF PrimaryErrorCaught(dur_primary.kind)
       THEN dur_pc' = "secondary" /\ dur_result' = dur_result
       ELSE dur_pc' = "raised" /\ dur_result' = dur_result
    /\ UNCHANGED <<pc, unitVars, pluginVars, batchVars, dur_primary, dur_secondary, mainVars, configVars,
                   runVars, stages, narrateVars, speechVars, synVars, parseVars>>

\* lines 218-235: the secondary probe, then the default
ProbeSecondary ==
    /\ dur_pc = "secondary"
    /\ dur_pc' = "returned"
    /\ dur_result' = IF dur_secondary.kind = "duration"
                     THEN dur_secondary.value
                     ELSE DefaultDuration
    /\ UNCHANGED <<pc, unitVars, pluginVars, batchVars, dur_primary, dur_secondary, mainVars, configVars,
                   runVars, stages, narrateVars, speechVars, synVars, parseVars>>

ProbeNext ==
    \/ ProbePrimary
    \/ ProbeSecondary

SpecProbe == ProbeInit /\ [][ProbeNext]_vars

\* ---------------------------------------------------- PPTParser._parse_pptx
\* what running a converter does: it returns, or raises (a timeout, a non-zero
\* status under check=True), having written nothing, an empty file or a PDF
ConverterRun(raised, wrote) == [raised |-> raised, wrote |-> wrote]

ConverterRuns ==
    {ConverterRun(raised, wrote) : raised \in BOOLEAN, wrote \in {"nothing", "empty", "pdf"}}

\* the file a converter was told to write, after the run
Written(before, run) == IF run.wrote = "nothing" THEN before ELSE run.wrote

\* lines 223, 253, 291: the file exists and st_size > 0
Converted(file) == file = "pdf"

\* line 237: not success and self.has_unoconv
UnoconvDue == ~cv_success /\ has_unoconv

CompatibilityAlways == has_libreoffice

\* line 261: not success and self.has_libreoffice
CompatibilityDue == ~cv_success /\ has_libreoffice

ConvertInit ==
    /\ PipelineUnused
    /\ PluginIdle
    /\ BatchIdle
    /\ ProbeIdle
    /\ EnhanceIdle
    /\ RequestIdle
    /\ cv_pc = "call"
    /\ has_libreoffice \in BOOLEAN
    /\ has_unoconv \in BOOLEAN
    /\ cv_input \in {"empty", "deck"}
    /\ cv_output = "absent"
    /\ cv_expected = "absent"
    /\ cv_success = FALSE
    /\ cv_cmds = <<>>
    /\ cv_error = "none"

\* lines 114-120, 198-205: mkstemp creates the empty temporary PDF, then
\* _convert_to_pdf looks at its input
ParsePptxBegin ==
    /\ cv_pc = "call"
    /\ cv_output' = "empty"
    /\ IF cv_input = "empty"
       THEN cv_error' = "input" /\ cv_pc' = "finally"
       ELSE cv_error' = cv_error /\ cv_pc' = "simple"
    /\ UNCHANGED <<pc, pluginVars, batchVars, probeVars, enhanceVars, requestVars, has_libreoffice, has_unoconv, cv_input,
                   cv_expected, cv_success, cv_cmds, mainVars, configVars, runVars, stages,
                   narrateVars, speechVars, synVars, parseVars>>

\* lines 207-234: method 1, libreoffice --convert-to pdf --outdir
ConvertSimple ==
    /\ cv_pc = "simple"
    /\ cv_pc' = "unoconv"
    /\ IF has_libreoffice
       THEN \E run \in ConverterRuns :
                LET file == Written(cv_expected, run)
                    ok == ~run.raised /\ Converted(file)
                IN  /\ cv_cmds' = Append(cv_cmds, "simple")
                    /\ cv_success' = ok
                    /\ cv_expected' = IF ok THEN "absent" ELSE file
                    /\ cv_output' = IF ok THEN file ELSE cv_output
       ELSE UNCHANGED <<cv_cmds, cv_success, cv_expected, cv_output>>
    /\ UNCHANGED <<pc, pluginVars, batchVars, probeVars, enhanceVars, requestVars, has_libreoffice, has_unoconv, cv_input,
                   cv_error, mainVars, configVars, runVars, stages, narrateVars, speechVars,
                   synVars, parseVars>>

\* lines 236-258: method 2, unoconv -o output_path
ConvertUnoconv ==
    /\ cv_pc = "unoconv"
    /\ cv_pc' = "compatibility"
    /\ IF UnoconvDue
       THEN \E run \in ConverterRuns :
                LET file == Written(cv_output, run)
                IN  /\ cv_cmds' = Append(cv_cmds, "unoconv")
                    /\ cv_success' = (~run.raised /\ Converted(file))
                    /\ cv_output' = file
       ELSE UNCHANGED <<cv_cmds, cv_success, cv_output>>
    /\ UNCHANGED <<pc, pluginVars, batchVars, probeVars, enhanceVars, requestVars, has_libreoffice, has_unoconv, cv_input,
                   cv_expected, cv_error, mainVars, configVars, runVars, stages, narrateVars,
                   speechVars, synVars, parseVars>>

\* lines 260-300: method 3, libreoffice with the compatibility options, after
\* output_path was unlinked
ConvertCompatibility ==
    /\ cv_pc = "compatibility"
    /\ cv_pc' = "validate"
    /\ IF CompatibilityDue
       THEN \E run \in ConverterRuns :
                LET file == Written(cv_expected, run)
                    ok == ~run.raised /\ Converted(file)
                IN  /\ cv_cmds' = Append(cv_cmds, "compatibility")
                    /\ cv_success' = ok
                    /\ cv_expected' = IF ok THEN "absent" ELSE file
                    /\ cv_output' = IF ok THEN file ELSE "absent"
       ELSE UNCHANGED <<cv_cmds, cv_success, cv_expected, cv_output>>
    /\ UNCHANGED <<pc, pluginVars, batchVars, probeVars, enhanceVars, requestVars, has_libreoffice, has_unoconv, cv_input,
                   cv_error, mainVars, configVars, runVars, stages, narrateVars, speechVars,
                   synVars, parseVars>>

\* lines 302-314: the output is validated; an empty output is removed before
\* the error is raised
ConvertValidate ==
    /\ cv_pc = "validate"
    /\ IF ~cv_success \/ ~Converted(cv_output)
       THEN /\ cv_error' = "convert"
            /\ cv_output' = IF cv_output = "empty" THEN "absent" ELSE cv_output
            /\ cv_pc' = "finally"
       ELSE /\ cv_pc' = "images"
            /\ UNCHANGED <<cv_error, cv_output>>
    /\ UNCHANGED <<pc, pluginVars, batchVars, probeVars, enhanceVars, requestVars, has_libreoffice, has_unoconv, cv_input,
                   cv_expected, cv_success, cv_cmds, mainVars, configVars, runVars, stages,
                   narrateVars, speechVars, synVars, parseVars>>

\* lines 123, 332-398: _pdf_to_images returns the images or raises
ParsePptxImages ==
    /\ cv_pc = "images"
    /\ cv_pc' = "finally"
    /\ \E rendered \in BOOLEAN : cv_error' = IF rendered THEN "none" ELSE "images"
    /\ UNCHANGED <<pc, pluginVars, batchVars, probeVars, enhanceVars, requestVars, has_libreoffice, has_unoconv, cv_input,
                   cv_output, cv_expected, cv_success, cv_cmds, mainVars, configVars, runVars,
                   stages, narrateVars, speechVars, synVars, parseVars>>

\* lines 125-137: the temporary PDF is unlinked if it exists, a failure to
\* unlink it is logged; then the call returns or the error goes on
ParsePptxFinally ==
    /\ cv_pc = "finally"
    /\ cv_pc' = IF cv_error = "none" THEN "returned" ELSE "raised"
    /\ \E unlinked \in BOOLEAN :
           cv_output' = IF unlinked THEN "absent" ELSE cv_output
    /\ UNCHANGED <<pc, pluginVars, batchVars, probeVars, enhanceVars, requestVars, has_libreoffice, has_unoconv, cv_input,
                   cv_expected, cv_success, cv_cmds, cv_error, mainVars, configVars, runVars,
                   stages, narrateVars, speechVars, synVars, parseVars>>

ConvertNext ==
    \/ ParsePptxBegin
    \/ ConvertSimple
    \/ ConvertUnoconv
    \/ ConvertCompatibility
    \/ ConvertValidate
    \/ ParsePptxImages
    \/ ParsePptxFinally

SpecConvert == ConvertInit /\ [][ConvertNext]_vars

\* ------------------------------------------- a direct call of _enhance_transcript
\* narrations handed to _enhance_transcript: with and without leading
\* whitespace, empty, all whitespace, and at or above the default minimum
EnhanceTexts ==
    {Text("str", 50, 0, "model", 0, "none"), Text("str", 50, 2, "model", 0, "none"),
     Text("str", 0, 0, "model", 0, "none"), Text("str", 2, 2, "model", 0, "none"),
     Text("str", 250, 0, "model", 0, "none"), Text("str", 250, 2, "model", 0, "none")}

EnhanceInit ==
    /\ num_slides = 1
    /\ batch_size = 1
    /\ min_transcript_length \in MinLengths
    /\ fade_in = TRUE
    /\ fade_out = TRUE
    /\ save_intermediates = TRUE
    /\ DefaultVoiceOptions
    /\ MainAbsent
    /\ PluginIdle
    /\ BatchIdle
    /\ ProbeIdle
    /\ ConvertIdle
    /\ RequestIdle
    /\ PipelineIdle
    /\ SynIdle
    /\ ParseIdle
    /\ en_pc = "call"
    /\ en_short \in EnhanceTexts
    /\ en_total \in 1..MaxDeck
    /\ en_slide \in 1..en_total
    /\ en_result = NullValue

\* lines 403-470
EnhanceCall ==
    /\ en_pc = "call"
    /\ en_pc' = "returned"
    /\ en_result' = EnhanceTranscript(en_short, en_slide, en_total, min_transcript_length)
    /\ UNCHANGED <<pc, pluginVars, batchVars, probeVars, convertVars, requestVars, en_short,
                   en_slide, en_total, mainVars, configVars, runVars, stages, narrateVars,
                   speechVars, synVars, parseVars>>

EnhanceNext == EnhanceCall

SpecEnhance == EnhanceInit /\ [][EnhanceNext]_vars

\* ------------------------- TranscriptGenerator.generate_transcript, by request
\* pipeline_config.py line 91: values of config.api_retry_attempts
RetrySettings == {1, DefaultApiRetryAttempts, 5}

\* a request to the vision model and how the retried function ended: it
\* returned the text, or it raised (the request failed, or its answer has no
\* content to strip)
ModelRequest(slide, outcome) == [slide |-> slide, outcome |-> outcome]

RequestOutcomes == {"text", "raises"}

\* a generator that retries as often as the configuration says
AttemptsExhaustedByConfig(attempt) == attempt >= api_retry_attempts

\* lines 100 and 151: stop=stop_after_attempt(3)
AttemptsExhausted(attempt) == attempt >= RetryAttempts

RequestInit ==
    /\ PipelineUnused
    /\ PluginIdle
    /\ BatchIdle
    /\ ProbeIdle
    /\ ConvertIdle
    /\ EnhanceIdle
    /\ rq_pc = "batch"
    /\ rq_k \in 1..MaxBatch
    /\ rq_encodable \in BOOLEAN
    /\ rq_slide = 0
    /\ rq_attempt = 0
    /\ rq_requests = <<>>
    /\ api_retry_attempts \in RetrySettings

\* lines 73-77 and 93-98: _image_to_base64 raises before any request, the
\* except branch goes on to the single slides
BatchEncodeError ==
    /\ rq_pc = "batch"
    /\ ~rq_encodable
    /\ rq_pc' = "singles"
    /\ rq_slide' = 1
    /\ rq_attempt' = 0
    /\ UNCHANGED <<pc, pluginVars, batchVars, probeVars, convertVars, enhanceVars, rq_k,
                   rq_encodable, rq_requests, api_retry_attempts, mainVars, configVars, runVars,
                   stages, narrateVars, speechVars, synVars, parseVars>>

\* lines 79-98 and 151-200: one attempt of _generate_batch_transcripts
BatchRequest ==
    /\ rq_pc = "batch"
    /\ rq_encodable
    /\ \E outcome \in RequestOutcomes :
         /\ rq_requests' = Append(rq_requests, ModelRequest(0, outcome))
         /\ IF outcome = "text"
            THEN rq_pc' = "returned" /\ rq_slide' = rq_slide /\ rq_attempt' = rq_attempt + 1
            ELSE IF AttemptsExhausted(rq_attempt + 1)
            THEN rq_pc' = "singles" /\ rq_slide' = 1 /\ rq_attempt' = 0
            ELSE rq_pc' = rq_pc /\ rq_slide' = rq_slide /\ rq_attempt' = rq_attempt + 1
    /\ UNCHANGED <<pc, pluginVars, batchVars, probeVars, convertVars, enhanceVars, rq_k,
                   rq_encodable, api_retry_attempts, mainVars, configVars, runVars, stages,
                   narrateVars, speechVars, synVars, parseVars>>

\* lines 100-149 and 212-235: one attempt of _generate_single_transcript for
\* slide rq_slide; the loop goes on when it returned or gave up
SingleRequest ==
    /\ rq_pc = "singles"
    /\ rq_encodable
    /\ \E outcome \in RequestOutcomes :
         /\ rq_requests' = Append(rq_requests, ModelRequest(rq_slide, outcome))
         /\ IF outcome = "text" \/ AttemptsExhausted(rq_attempt + 1)
            THEN /\ rq_attempt' = 0
                 /\ rq_slide' = rq_slide + 1
                 /\ rq_pc' = IF rq_slide = rq_k THEN "returned" ELSE rq_pc
            ELSE rq_pc' = rq_pc /\ rq_slide' = rq_slide /\ rq_attempt' = rq_attempt + 1
    /\ UNCHANGED <<pc, pluginVars, batchVars, probeVars, convertVars, enhanceVars, rq_k,
                   rq_encodable, api_retry_attempts, mainVars, configVars, runVars, stages,
                   narrateVars, speechVars, synVars, parseVars>>

\* lines 112-113: the attempt raises in _image_to_base64, before its request
SingleEncodeError ==
    /\ rq_pc = "singles"
    /\ ~rq_encodable
    /\ IF AttemptsExhausted(rq_attempt + 1)
       THEN /\ rq_attempt' = 0
            /\ rq_slide' = rq_slide + 1
            /\ rq_pc' = IF rq_slide = rq_k THEN "returned" ELSE rq_pc
       ELSE rq_pc' = rq_pc /\ rq_slide' = rq_slide /\ rq_attempt' = rq_attempt + 1
    /\ UNCHANGED <<pc, pluginVars, batchVars, probeVars, convertVars, enhanceVars, rq_k,
                   rq_encodable, rq_requests, api_retry_attempts, mainVars, configVars, runVars,
                   stages, narrateVars, speechVars, synVars, parseVars>>

RequestNext ==
    \/ BatchEncodeError
    \/ BatchRequest
    \/ SingleRequest
    \/ SingleEncodeError

\* every attempt ends: the requests carry a timeout and tenacity waits at
\* most 60 seconds between two attempts
SpecRequests == RequestInit /\ [][RequestNext]_vars /\ WF_vars(RequestNext)

\* ------------------------------------------------------- run_pipeline.main
\* pipeline_config.py line 134
ValidStyles == {"professional", "casual", "academic", "storytelling"}

\* pipeline_config.py line 139
ValidVoices == {"zh_female", "zh_male", "en_female", "en_male"}

\* pipeline_config.py lines 117-172: the options validate() finds fault with
ValidationErrors(o, bs, voice) ==
    (IF o.ppt_dpi < 72 \/ o.ppt_dpi > 600 THEN {"ppt_dpi"} ELSE {})
    \cup (IF o.max_tokens < 100 \/ o.max_tokens > 640000 THEN {"max_tokens"} ELSE {})
    \cup (IF o.temperature < 0 \/ o.temperature > 10 THEN {"temperature"} ELSE {})
    \cup (IF o.transcript_style \notin ValidStyles THEN {"transcript_style"} ELSE {})
    \cup (IF voice \notin ValidVoices THEN {"voice_id"} ELSE {})
    \cup (IF o.speech_speed < 5 \/ o.speech_speed > 20 THEN {"speech_speed"} ELSE {})
    \cup (IF o.speech_volume < 0 \/ o.speech_volume > 20 THEN {"speech_volume"} ELSE {})
    \cup (IF o.speech_pitch < -20 \/ o.speech_pitch > 20 THEN {"speech_pitch"} ELSE {})
    \cup (IF o.video_fps < 1 \/ o.video_fps > 60 THEN {"video_fps"} ELSE {})
    \cup (IF o.video_width < 320 \/ o.video_height < 240 THEN {"video_resolution"} ELSE {})
    \cup (IF o.transition_duration < 0 \/ o.transition_duration > 50
          THEN {"transition_duration"} ELSE {})
    \cup (IF bs < 1 \/ bs > 50 THEN {"batch_size"} ELSE {})

\* the default options with one option just outside its range
OptionVariants ==
    {DefaultOptions}
    \cup {[DefaultOptions EXCEPT !.ppt_dpi = v] : v \in {71, 601}}
    \cup {[DefaultOptions EXCEPT !.max_tokens = v] : v \in {99, 640001}}
    \cup {[DefaultOptions EXCEPT !.temperature = v] : v \in {-1, 11}}
    \cup {[DefaultOptions EXCEPT !.transcript_style = "poetic"]}
    \cup {[DefaultOptions EXCEPT !.speech_speed = v] : v \in {4, 21}}
    \cup {[DefaultOptions EXCEPT !.speech_volume = v] : v \in {-1, 21}}
    \cup {[DefaultOptions EXCEPT !.speech_pitch = v] : v \in {-21, 21}}
    \cup {[DefaultOptions EXCEPT !.video_fps = v] : v \in {0, 61}}
    \cup {[DefaultOptions EXCEPT !.video_width = 319]}
    \cup {[DefaultOptions EXCEPT !.video_height = 239]}
    \cup {[DefaultOptions EXCEPT !.transition_duration = v] : v \in {-1, 51}}

\* run_pipeline.py line 31: what PipelineConfig.load reads from the configuration file
ConfigFile(o, bs, voice, clone, audio, reftext) ==
    [options |-> o, batch_size |-> bs, voice_id |-> voice, use_voice_clone |-> clone,
     reference_audio_path |-> audio, reference_text |-> reftext]

ConfigFiles ==
    {ConfigFile(o, 1, "zh_female", FALSE, "none", "none") : o \in OptionVariants}
    \cup {ConfigFile(DefaultOptions, bs, "zh_female", FALSE, "none", "none") : bs \in {0, 51}}
    \cup {ConfigFile(DefaultOptions, 1, "robot", FALSE, "none", "none")}
    \cup {ConfigFile(DefaultOptions, 1, "zh_female", TRUE, "none", "none"),
          ConfigFile(DefaultOptions, 1, "zh_female", TRUE, "file", "text")}

CliArgs ==
    {NoArgs, Args(TRUE, "file", "text"), Args(TRUE, "file", "none"), Args(TRUE, "none", "none")}

\* run_pipeline.py lines 27-31: the arguments are parsed and the configuration loaded
MainInit ==
    /\ LibIdle
    /\ main_pc = "start"
    /\ cli_args \in CliArgs
    /\ config_errors = {}
    /\ \E file \in ConfigFiles :
         /\ options = file.options
         /\ batch_size = file.batch_size
         /\ voice_id = file.voice_id
         /\ use_voice_clone = file.use_voice_clone
         /\ reference_audio_path = file.reference_audio_path
         /\ reference_text = file.reference_text
    /\ num_slides \in 1..MaxSlides
    /\ min_transcript_length = 50
    /\ fade_in = TRUE
    /\ fade_out = TRUE
    /\ save_intermediates = TRUE
    /\ pc = "idle"
    /\ progress = <<>>
    /\ speech_calls = <<>>
    /\ images_dir = Dir(FALSE, {})
    /\ transcripts_dir = Dir(FALSE, {})
    /\ audio_dir = FALSE
    /\ stages = <<>>
    /\ all_transcripts = <<>>
    /\ batch_start = 0
    /\ outage = TRUE
    /\ batch_contexts = <<>>
    /\ batch_results = <<>>
    /\ speech_i = 0
    /\ audio_files = <<>>
    /\ audio_fs = NoAudio
    /\ SynIdle
    /\ ParseIdle

\* run_pipeline.py lines 37-48: the voice cloning arguments
MainCloneArgs ==
    /\ main_pc = "start"
    /\ IF cli_args.voice_clone
       THEN LET audio == IF Truthy(cli_args.reference_audio)
                         THEN cli_args.reference_audio ELSE reference_audio_path
                reftext == IF Truthy(cli_args.reference_text)
                           THEN cli_args.reference_text ELSE reference_text
            IN /\ use_voice_clone' = TRUE
               /\ reference_audio_path' = audio
               /\ reference_text' = reftext
               /\ IF ~Truthy(audio) \/ ~Truthy(reftext)
                  THEN main_pc' = "returned" /\ config_errors' = {"voice_clone"}
                  ELSE main_pc' = "validate" /\ config_errors' = config_errors
       ELSE /\ main_pc' = "validate"
            /\ UNCHANGED <<use_voice_clone, reference_audio_path, reference_text, config_errors>>
    /\ UNCHANGED <<pc, libVars, options, cli_args, num_slides, batch_size, min_transcript_length, fade_in,
                   fade_out, save_intermediates, voice_id, runVars, stages, narrateVars,
                   speechVars, synVars, parseVars>>

\* run_pipeline.py lines 50-53
MainValidate ==
    /\ main_pc = "validate"
    /\ LET errors == ValidationErrors(options, batch_size, voice_id)
       IN /\ config_errors' = errors
          /\ main_pc' = IF errors # {} THEN "returned" ELSE "create"
    /\ UNCHANGED <<pc, libVars, options, cli_args, configVars, runVars, stages, narrateVars, speechVars,
                   synVars, parseVars>>

\* run_pipeline.py line 56 and the constructor, lines 23-56
MainCreatePipeline ==
    /\ main_pc = "create"
    /\ main_pc' = "process"
    /\ images_dir' = Dir(save_intermediates, {})
    /\ transcripts_dir' = Dir(save_intermediates, {})
    /\ audio_dir' = save_intermediates
    /\ UNCHANGED <<pc, libVars, options, cli_args, config_errors, configVars, progress, stages,
                   narrateVars, speech_i, audio_files, audio_fs, speech_calls, synVars,
                   parseVars>>

\* run_pipeline.py lines 75-88: process returned or raised
MainReport ==
    /\ main_pc = "process"
    /\ pc \in {"done", "raised"}
    /\ main_pc' = "returned"
    /\ UNCHANGED <<pc, libVars, options, cli_args, config_errors, configVars, runVars, stages,
                   narrateVars, speechVars, synVars, parseVars>>

MainNext ==
    \/ MainCloneArgs
    \/ MainValidate
    \/ MainCreatePipeline
    \/ MainReport
    \/ Next

SpecMain == MainInit /\ [][MainNext]_vars

\* ================================================================== claims
StageOrder == <<"rasterize", "narrate", "speech", "composite">>

\* _generate_transcripts has returned its list
NarrationsReturned == pc = "s3" \/ \E i \in 1..Len(stages) : stages[i] = "speech"

\* C1: _generate_transcripts returns exactly one narration per slide of the
\* deck, for every batch size and every behaviour of the model.
C1_NarrationCountIsDeckSize ==
    NarrationsReturned => Len(all_transcripts) = num_slides

\* C1 witness: two batches, one padded after a too short answer, one replaced
\* by fallback texts after the length repair raised.
C1_Witness ==
    /\ pc = "s3"
    /\ num_slides = 2
    /\ batch_size = 1
    /\ all_transcripts[1].transcript.src = "pad"
    /\ all_transcripts[2].transcript.src = "fallback_last"

\* C2 (as claimed): the slide_number fields of the returned narrations are
\* 1, 2, ..., N in order, whatever the batch size and the model's numbers.
C2_SlideNumbersAreOneToN ==
    NarrationsReturned =>
        \A i \in 1..Len(all_transcripts) : all_transcripts[i].slide_number = i

\* C3 (as claimed): every returned narration is at least
\* config.min_transcript_length long.
C3_NarrationsMeetMinimum ==
    NarrationsReturned =>
        \A i \in 1..Len(all_transcripts) :
            all_transcripts[i].transcript.len >= min_transcript_length

FallbackRole(i, n) ==
    IF i = 1 THEN "fallback_first" ELSE IF i = n THEN "fallback_last" ELSE "fallback_middle"

\* C4 (as claimed): when every request to the vision model raised, the
\* narrations are the static fallback templates of the slides' roles.
C4_OutageGivesFallbackTemplates ==
    (NarrationsReturned /\ outage) =>
        \A i \in 1..Len(all_transcripts) :
            /\ all_transcripts[i].transcript.src = FallbackRole(i, num_slides)
            /\ all_transcripts[i].transcript.band = "none"

CompositorInvoked == \E i \in 1..Len(stages) : stages[i] = "composite"

\* C5 (as claimed): the compositor is invoked with as many images and clips as
\* there are slides and narrations, the i-th clip made from the narration of
\* the i-th image; a missing clip aborts the run before the compositor.
C5_CompositorInputsAligned ==
    CompositorInvoked =>
        /\ Len(syn_images) = num_slides
        /\ Len(syn_audio) = num_slides
        /\ Len(all_transcripts) = num_slides
        /\ \A i \in 1..Len(syn_audio) : audio_fs[syn_audio[i]] = syn_images[i]

\* C6: synthesize called with different numbers of images and audio files
\* raises before any probe, encode or concatenate process is started and
\* leaves no output video.
C6_MismatchRejectedBeforeAnyProcess ==
    Len(syn_images) # Len(syn_audio) =>
        /\ syn_pc \in {"entry", "raised"}
        /\ syn_procs = <<>>
        /\ ~syn_output

\* C6 witness: the call was made with a mismatch and has raised.
C6_Witness == Len(syn_images) > Len(syn_audio) /\ Len(syn_audio) > 0 /\ syn_pc = "raised"

WellFormedArray(resp) ==
    resp.fmt = "json_list" /\ \A i \in 1..Len(resp.items) : resp.items[i].wf

\* C7: for a well-formed JSON array the parser returns exactly k entries: the
\* array's items unchanged and in order, cut after the k-th, and a placeholder
\* at every position the array does not reach.
C7_WellFormedArrayKeptCutPadded ==
    (parse_pc = "returned" /\ WellFormedArray(parse_resp)) =>
        /\ Len(parse_out) = parse_k
        /\ \A i \in 1..Len(parse_out) :
             IF i <= Len(parse_resp.items)
             THEN /\ parse_out[i].slide_number = parse_resp.items[i].slide_number
                  /\ parse_out[i].transcript = parse_resp.items[i].transcript
             ELSE /\ parse_out[i].slide_number = i
                  /\ parse_out[i].transcript.src = "pad"
                  /\ parse_out[i].transcript.n = i

\* C7 witness: an array longer than k whose items differ, cut to k = 2 items.
C7_Witness ==
    /\ parse_pc = "returned"
    /\ WellFormedArray(parse_resp)
    /\ parse_k = 2
    /\ Len(parse_resp.items) = 3
    /\ parse_resp.items[1] # parse_resp.items[2]
    /\ parse_resp.items[3] # parse_resp.items[2]

MentionsSlideOne(text) == \E p \in 1..Len(text) : text[p] \in {Zh(1), En(1)}

\* C8: for a response that is no valid JSON the parser returns exactly k
\* entries numbered 1..k: from the marker splitter when the text holds a
\* slide-1 marker, and otherwise the batch placeholder for every slide.
C8_InvalidJsonSplitOrPlaceholder ==
    (parse_pc = "returned" /\ parse_resp.fmt = "text") =>
        /\ Len(parse_out) = parse_k
        /\ \A i \in 1..Len(parse_out) :
             /\ parse_out[i].slide_number = i
             /\ IF MentionsSlideOne(parse_resp.text)
                THEN parse_out[i].transcript.src \in {"marker", "unparsed"}
                ELSE parse_out[i].transcript.src = "batchfail"

\* C8 witness: an English slide-1 marker followed by text, and no marker for
\* slide 2.
C8_Witness ==
    /\ parse_pc = "returned"
    /\ parse_resp.fmt = "text"
    /\ parse_resp.text = <<En(1), Ch, Ch>>
    /\ parse_k = 2
    /\ parse_out[1].transcript.src = "marker"
    /\ parse_out[1].transcript.len = 2
    /\ parse_out[2].transcript.src = "unparsed"

\* C9 (as claimed): the run never aborts in the narration stage.
C9_NarrationNeverFailsTheRun ==
    pc = "raised" => (stages = <<>> \/ stages[Len(stages)] # "narrate")

\* C10: the stages start in the order rasterize, narrate, speech, composite,
\* each after the one before it has returned and none twice; a run that
\* returns a video has started all four.
C10_StagesInFixedOrder ==
    /\ Len(stages) <= Len(StageOrder)
    /\ stages = SubSeq(StageOrder, 1, Len(stages))
    /\ pc \in {"idle", "s1"} => stages = <<>>
    /\ pc = "s2" => Len(stages) = 1
    /\ pc \in {"gen", "s3"} => Len(stages) = 2
    /\ pc \in {"speech", "s4"} => Len(stages) = 3
    /\ pc \in {"synth", "s5", "done"} => stages = StageOrder
    /\ syn_pc # "idle" => stages = StageOrder

\* C10 witness: a run that returned a video.
C10_Witness == pc = "done" /\ syn_output /\ Len(syn_procs) > 1

Checkpoints ==
    <<ParsingProgress, TranscriptsProgress, SpeechProgress, VideoProgress, CompleteProgress>>

\* C11 (as claimed): the fractions passed to progress_callback are the
\* checkpoints 0.1, 0.3, 0.6, 0.8, 1.0 in that order; 1.0 is reported only
\* after the compositor returned the video, and never by a run that aborts.
C11_ProgressCheckpointsThenComplete ==
    /\ Len(progress) <= Len(Checkpoints)
    /\ progress = SubSeq(Checkpoints, 1, Len(progress))
    /\ \A i \in 1..Len(progress) :
         progress[i] = CompleteProgress => (syn_pc = "returned" /\ syn_output /\ pc # "raised")

ReferenceMissing == ~Truthy(reference_audio_path) \/ ~Truthy(reference_text)

\* C12: with use_voice_clone set and the reference audio or the reference
\* text absent, the speech stage calls the plugin once per narration with the
\* preset voice config.voice_id and no clone reference, and no call is
\* rejected for a missing reference.
C12_MissingReferenceUsesPresetVoice ==
    (use_voice_clone /\ ReferenceMissing) =>
        /\ \A i \in 1..Len(speech_calls) :
             /\ speech_calls[i] =
                    SynthesisArgs(all_transcripts[i].transcript, "none", "none", voice_id)
             /\ PrepareRequest(speech_calls[i]).error \notin {"usage", "file_not_found"}
        /\ pc = "s4" => Len(speech_calls) = Len(all_transcripts)
        /\ pc # "raised"

\* C12 witness: cloning switched on with a reference audio and no reference
\* text; both slides were synthesized.
C12_Witness ==
    /\ pc = "s4"
    /\ use_voice_clone
    /\ reference_audio_path = "file"
    /\ reference_text = "none"
    /\ Len(speech_calls) = 2
    /\ Len(audio_files) = 2

\* the configurations the claim calls invalid
OptionOutOfRange ==
    \/ options.ppt_dpi \notin 72..600
    \/ options.max_tokens \notin 100..640000
    \/ options.temperature \notin 0..10
    \/ options.transcript_style \notin {"professional", "casual", "academic", "storytelling"}
    \/ voice_id \notin {"zh_female", "zh_male", "en_female", "en_male"}
    \/ options.video_fps \notin 1..60
    \/ options.video_width < 320
    \/ options.video_height < 240
    \/ options.transition_duration \notin 0..50
    \/ batch_size \notin 1..50

NoStageStarted == stages = <<>>

\* C13 (as claimed): a configuration with an out-of-range option, or with
\* voice cloning enabled and a reference field missing, is reported as an
\* error and no stage is ever started for it.
C13_InvalidConfigStartsNoStage ==
    (OptionOutOfRange \/ (use_voice_clone /\ ReferenceMissing)) =>
        /\ NoStageStarted
        /\ main_pc = "returned" => config_errors # {}

PresetSupplied == Truthy(sp_args.reference_id)

CloneSupplied == Truthy(sp_args.reference_audio_path) /\ Truthy(sp_args.reference_text)

\* C14 (as claimed): a call of synthesize that supplies both a preset voice
\* and a clone reference, or neither, is rejected as a usage error and sends
\* no request.
C14_ExactlyOneVoiceSource ==
    (sp_pc # "idle" /\ PresetSupplied = CloneSupplied) =>
        /\ sp_requests = <<>>
        /\ sp_pc # "returned"
        /\ sp_pc = "raised" => sp_error = "usage"

\* C15: one call of synthesize makes at most 3 attempts and sends at most 3
\* requests; every attempt but the last failed; it returns at the first
\* success and raises the third attempt's error after three failures; the
\* audio file is written only by a call that returned.
C15_AtMostThreeRequests ==
    /\ Len(sp_requests) <= 3
    /\ Len(sp_outcomes) <= 3
    /\ \A i \in 1..(Len(sp_outcomes) - 1) : sp_outcomes[i] # "none"
    /\ sp_pc = "call" => Len(sp_outcomes) < 3
    /\ sp_pc = "returned" => sp_outcomes[Len(sp_outcomes)] = "none"
    /\ sp_pc = "raised" =>
         /\ Len(sp_outcomes) = 3
         /\ sp_error = sp_outcomes[3]
         /\ sp_error # "none"
    /\ sp_file => sp_pc = "returned"

\* C15 witness: three requests were sent, each failed in its own way, and the
\* third error was raised without a file.
C15_Witness ==
    /\ sp_pc = "raised"
    /\ Len(sp_requests) = 3
    /\ sp_outcomes = <<"transport", "status", "no_audio">>
    /\ sp_error = "no_audio"
    /\ sp_output_path
    /\ ~sp_file

\* C16: batch_synthesize returns one result per text, the i-th for the i-th
\* text: the audio of text i when its synthesis returned, empty bytes when it
\* raised; every text is attempted and the call does not raise.
C16_BatchResultsAlignedWithTexts ==
    /\ Len(bt_results) = Len(bt_attempted)
    /\ Len(bt_results) <= Len(bt_texts)
    /\ \A i \in 1..Len(bt_results) :
         bt_results[i] = IF bt_attempted[i] = "returned" THEN i ELSE 0
    /\ bt_pc = "returned" => Len(bt_results) = Len(bt_texts)
    /\ bt_pc \in {"idle", "loop", "returned"}

\* C16 witness: the first of two texts failed after three attempts, the
\* second was still synthesized.
C16_Witness ==
    /\ bt_pc = "returned"
    /\ Len(bt_texts) = 2
    /\ bt_attempted = <<"raised", "returned">>
    /\ bt_results = <<0, 2>>

IsEncode(proc) == proc.kind = "encode"

EncodesBefore(p) == SelectSeq(SubSeq(syn_procs, 1, p - 1), IsEncode)

\* C17: a segment encode that fails is the last process synthesize starts:
\* the call raises and reports no video; the concatenation is started only
\* after the segments of all N slides were created, in slide order.
C17_SegmentFailureIsFatal ==
    \A p \in 1..Len(syn_procs) :
        /\ (syn_procs[p].kind = "encode" /\ syn_procs[p].result # "ok") =>
               /\ p = Len(syn_procs)
               /\ syn_pc = "raised"
               /\ ~syn_output
        /\ syn_procs[p].kind = "concat" =>
               /\ Len(EncodesBefore(p)) = Len(syn_images)
               /\ \A j \in 1..Len(EncodesBefore(p)) :
                    /\ EncodesBefore(p)[j].seg = j
                    /\ EncodesBefore(p)[j].image = syn_images[j]
                    /\ EncodesBefore(p)[j].result = "ok"

\* C17 witness: of three segments the second was encoded without leaving a
\* segment file; the call raised after it.
C17_Witness ==
    /\ syn_pc = "raised"
    /\ Len(syn_images) = 3
    /\ Len(syn_procs) = 4
    /\ syn_procs[4].kind = "encode"
    /\ syn_procs[4].seg = 2
    /\ syn_procs[4].result = "no_file"

\* C18: the fade-in filter is on the encode of clip 1 and of no other clip,
\* the fade-out filter on the encode of clip N and of no other clip, each
\* only when its flag is set.
C18_FadesOnFirstAndLastClipOnly ==
    \A p \in 1..Len(syn_procs) :
        syn_procs[p].kind = "encode" =>
            /\ "fade_in" \in syn_procs[p].filters <=> (fade_in /\ syn_procs[p].seg = 1)
            /\ "fade_out" \in syn_procs[p].filters <=>
                   (fade_out /\ syn_procs[p].seg = Len(syn_images))

\* C18 witness: three clips with both flags set: the first fades in, the
\* second has no fade, the third fades out.
C18_Witness ==
    /\ syn_pc = "returned"
    /\ fade_in
    /\ fade_out
    /\ Len(syn_images) = 3
    /\ syn_procs[2].filters = {"fade_in"}
    /\ syn_procs[4].filters = {}
    /\ syn_procs[6].filters = {"fade_out"}

\* C18 witness for a single clip: it carries both filters.
C18_WitnessSingleClip ==
    /\ syn_pc = "returned"
    /\ Len(syn_images) = 1
    /\ syn_procs[2].filters = {"fade_in", "fade_out"}

\* C19 (as claimed): _get_audio_duration never raises and returns the
\* primary probe's value when that probe succeeds, else the secondary
\* probe's value when that one succeeds, else 5 seconds.
C19_DurationAlwaysReturned ==
    /\ dur_pc # "raised"
    /\ dur_pc = "returned" =>
         dur_result = IF dur_primary.kind = "ok" THEN dur_primary.value
                      ELSE IF dur_secondary.kind = "duration" THEN dur_secondary.value
                      ELSE 5

\* C20 (as claimed): after process returned, the images, transcripts and
\* audio directories are gone when save_intermediates is false; when it is
\* true they exist and hold the image of every slide, the narrations and the
\* audio file of every slide, made from that slide's narration.
C20_IntermediatesKeptOrRemoved ==
    pc = "done" =>
        IF save_intermediates
        THEN /\ images_dir.exists
             /\ images_dir.files = 1..num_slides
             /\ transcripts_dir.exists
             /\ transcripts_dir.files # {}
             /\ \A f \in transcripts_dir.files : f.narrations = all_transcripts
             /\ audio_dir
             /\ \A i \in 1..num_slides : audio_fs[i] = i
        ELSE /\ ~images_dir.exists
             /\ ~transcripts_dir.exists
             /\ ~audio_dir

\* ---------------------------------------------------------------- C21
\* C21: when a call of the rasterizer has exited, by returning or by raising,
\* neither its temporary PDF nor a PDF the converter wrote next to it exists.
C21_TemporaryArtifactsGone ==
    cv_pc \in {"returned", "raised"} =>
        /\ cv_output = "absent"
        /\ cv_expected = "absent"

\* the temporary PDF itself was removed, and a file of the converter remains
C21_ConverterFileLeft ==
    cv_pc \in {"returned", "raised"} /\ cv_output = "absent" => cv_expected = "absent"

\* ---------------------------------------------------------------- C22
\* the conversion methods in the order of the source
ConversionMethods == <<"simple", "unoconv", "compatibility">>

\* the methods whose converter is installed, in that order
InstalledMethods ==
    SelectSeq(ConversionMethods,
              LAMBDA m : IF m = "unoconv" THEN has_unoconv ELSE has_libreoffice)

\* _convert_to_pdf came back without an error
ConvertReturned == cv_pc = "images"

\* _convert_to_pdf raised the error of lines 304-314
ConvertFailed == cv_error = "convert"

\* what C22 says of the result, of the order and of the output file
ConvertResultContract ==
    /\ ConvertReturned => Converted(cv_output)
    /\ cv_cmds = SelectSeq(ConversionMethods,
                           LAMBDA m : m \in {cv_cmds[j] : j \in 1..Len(cv_cmds)})
    /\ cv_pc \in {"finally", "returned", "raised"} /\ cv_input = "deck" /\ ~cv_success
           => ConvertFailed
    /\ ConvertFailed => cv_output # "empty"

\* a method is run only while no earlier method succeeded
MethodOnlyAfterFailures == [][cv_cmds' # cv_cmds => ~cv_success]_vars

\* C22 as stated: _convert_to_pdf returns only with a non-empty PDF at
\* output_path, runs its methods in the fixed order and each only after the
\* earlier ones failed, removes an empty output before raising, and has tried
\* at least two fallback methods whenever it fails with a converter installed.
C22_TwoFallbacksAlways ==
    /\ [](ConvertResultContract)
    /\ MethodOnlyAfterFailures
    /\ [](ConvertFailed /\ (has_libreoffice \/ has_unoconv) => Len(cv_cmds) >= 3)

\* C22 (amended): as above, except that a method whose converter is not
\* installed is skipped: every installed method was tried before the failure,
\* so both fallback methods were tried when LibreOffice and unoconv are
\* installed.
C22_InstalledMethodsTried ==
    /\ [](ConvertResultContract)
    /\ MethodOnlyAfterFailures
    /\ [](ConvertFailed => cv_cmds = InstalledMethods)
    /\ [](ConvertFailed /\ has_libreoffice /\ has_unoconv => Len(cv_cmds) >= 3)

\* every method was run and failed, and the error was raised with no output left
C22_Witness ==
    /\ ConvertFailed
    /\ cv_cmds = ConversionMethods
    /\ cv_output = "absent"

\* ---------------------------------------------------------------- C23
\* the response is JSON, and no list
NotAList(resp) == resp.fmt = "json_other"

\* the response is a JSON list holding an element that lacks a key
HasMalformedItem(resp) ==
    resp.fmt = "json_list" /\ \E i \in 1..Len(resp.items) : ~resp.items[i].wf

\* the entries are those of the except branch: the marker splitter when the
\* text holds a slide-1 marker, the batch placeholder otherwise
HandledAsUnparsable(resp, out, k) ==
    /\ Len(out) = k
    /\ \A i \in 1..Len(out) :
         /\ out[i].slide_number = i
         /\ IF MentionsSlideOne(resp.text)
            THEN out[i].transcript.src \in {"marker", "unparsed"}
            ELSE out[i].transcript.src = "batchfail"

\* no slide-1 marker, and every entry is a placeholder of its slide
PlaceholdersOnly(resp, out, k) ==
    /\ Len(out) = k
    /\ ~MentionsSlideOne(resp.text)
    /\ \A i \in 1..Len(out) :
         /\ out[i].slide_number = i
         /\ out[i].transcript.src \in {"batchfail", "pad"}

\* the elements of the list that hold both keys, in order
WellFormedItems(resp) == SelectSeq(resp.items, LAMBDA it : it.wf)

\* the entries are the well-formed elements, cut after the k-th, and a
\* placeholder at every position they do not reach
HandledAsShortList(resp, out, k) ==
    /\ Len(out) = k
    /\ \A i \in 1..Len(out) :
         IF i <= Len(WellFormedItems(resp))
         THEN /\ out[i].slide_number = WellFormedItems(resp)[i].slide_number
              /\ out[i].transcript = WellFormedItems(resp)[i].transcript
         ELSE /\ out[i].slide_number = i
              /\ out[i].transcript.src = "pad"
              /\ out[i].transcript.n = i

\* C23 as stated: a response that is JSON but no list, or a list holding an
\* element without the slide_number or transcript key, is handled as a
\* response that fails to parse: by the marker splitter, or by the batch
\* placeholder for every slide when the text holds no slide-1 marker.
C23_StructurallyWrongAsUnparsable ==
    (parse_pc = "returned" /\ (NotAList(parse_resp) \/ HasMalformedItem(parse_resp))) =>
        \/ HandledAsUnparsable(parse_resp, parse_out, parse_k)
        \/ PlaceholdersOnly(parse_resp, parse_out, parse_k)

\* C23 (amended): a response that is JSON but no list is handled as a response
\* that fails to parse; a list holding elements without one of the keys is not:
\* those elements are dropped, the others are kept in order and cut to k, and
\* the positions they do not reach get the per-slide placeholder.
C23_NonListAsUnparsableListFiltered ==
    parse_pc = "returned" =>
        /\ NotAList(parse_resp) => HandledAsUnparsable(parse_resp, parse_out, parse_k)
        /\ HasMalformedItem(parse_resp) => HandledAsShortList(parse_resp, parse_out, parse_k)

\* a list whose first element lacks a key: the second is kept as entry 1 and
\* entry 2 is a placeholder
C23_Witness ==
    /\ parse_pc = "returned"
    /\ parse_k = 2
    /\ Len(parse_resp.items) = 2
    /\ HasMalformedItem(parse_resp)
    /\ parse_resp.items[2].wf
    /\ parse_out[1].transcript = parse_resp.items[2].transcript
    /\ parse_out[2].transcript.src = "pad"

\* ---------------------------------------------------------------- C24
\* the narrations appended before batch b started
NarrationsBefore(b) == Min((b - 1) * batch_size, num_slides)

\* summary i of the context of batch b shows the narration at position p
SummaryOf(b, i, p) ==
    LET summary == batch_contexts[b].summaries[i]
        narration == all_transcripts[p]
    IN  /\ summary.slide_number = narration.slide_number
        /\ summary.head.len = Min(narration.transcript.len, SummaryChars)
        /\ [summary.head EXCEPT !.len = 0] = [narration.transcript EXCEPT !.len = 0]

\* C24: the context of a batch summarises narrations of earlier batches only:
\* the last 5 of them (all of them when there are fewer, none for the first
\* batch), in their order, each cut to its first 100 characters; and a context
\* is built only when the narrations of every earlier batch were appended.
C24_ContextSummarisesRecentNarrations ==
    /\ Len(batch_contexts) = Len(batch_results)
    /\ Len(all_transcripts) = NarrationsBefore(Len(batch_contexts) + 1)
    /\ \A b \in 1..Len(batch_contexts) :
         LET before == NarrationsBefore(b)
             shown == Len(batch_contexts[b].summaries)
         IN  /\ shown = Min(before, RecentSummaries)
             /\ \A i \in 1..shown : SummaryOf(b, i, before - shown + i)

\* the seventh batch of a deck in batches of one slide: six narrations came
\* before, five are summarised, and the first of the five is cut
C24_Witness ==
    /\ Len(batch_contexts) = 7
    /\ batch_size = 1
    /\ Len(batch_contexts[7].summaries) = RecentSummaries
    /\ all_transcripts[1].transcript # all_transcripts[2].transcript
    /\ all_transcripts[2].transcript.len > SummaryChars
    /\ batch_contexts[7].summaries[1].head.len = SummaryChars

\* ---------------------------------------------------------------- C25
\* the third of the deck in which slide first of total begins
ThirdOf(first, total) ==
    IF 3 * (first - 1) < total THEN "early"
    ELSE IF 3 * (first - 1) < 2 * total THEN "middle"
    ELSE "late"

\* C25: the context of every batch carries the hint of the third of the deck
\* in which the first slide of the batch lies, and the context of the first
\* batch carries the early hint.
C25_HintByThirdOfDeck ==
    \A b \in 1..Len(batch_contexts) :
        /\ batch_contexts[b].hint = ThirdOf(batch_contexts[b].first, num_slides)
        /\ b = 1 => batch_contexts[b].hint = "early"

\* the first batch carries the early hint
C25_FirstBatchEarly == Len(batch_contexts) >= 1 => batch_contexts[1].hint = "early"

\* ---------------------------------------------------------------- C26
FillerBands == {"opening", "closing", "early", "middle", "late"}

\* C26: _enhance_transcript returns a narration at or above the minimum
\* unchanged; otherwise it returns the complete narration, a blank line and
\* the paragraph of exactly one of the five bands: the opening band for slide
\* 1 (of any deck) and the closing band for the last slide of a longer deck.
C26_EnhanceAppendsOneBand ==
    en_pc = "returned" =>
        IF en_short.len >= min_transcript_length
        THEN en_result = en_short
        ELSE /\ en_result.band \in FillerBands
             /\ en_slide = 1 => en_result.band = "opening"
             /\ en_slide = en_total /\ en_total > 1 => en_result.band = "closing"
             /\ en_result.lead = en_short.lead
             /\ en_result.len >= en_short.len + FillerLen(en_result.band)

\* the band is chosen as claimed and a narration without leading whitespace
\* is kept whole
C26_BandAndUnpaddedNarration ==
    en_pc = "returned" =>
        IF en_short.len >= min_transcript_length
        THEN en_result = en_short
        ELSE /\ en_result.band \in FillerBands
             /\ en_slide = 1 => en_result.band = "opening"
             /\ en_slide = en_total /\ en_total > 1 => en_result.band = "closing"
             /\ en_short.lead = 0 =>
                    /\ en_result.lead = 0
                    /\ en_result.len >= en_short.len + FillerLen(en_result.band)

\* ---------------------------------------------------------------- C27
\* C27: the audio paths _generate_speech returns are pairwise distinct, for
\* every deck and every batch size, so that no clip is written over another
\* and the compositor never gets the same file twice.
C27_AudioPathsDistinct ==
    pc \in {"s4", "synth", "s5", "done"} =>
        \A i, j \in 1..Len(audio_files) : i # j => audio_files[i] # audio_files[j]

\* ---------------------------------------------------------------- C28
\* the requests sent for the whole batch, and for slide i on its own
BatchRequests == SelectSeq(rq_requests, LAMBDA r : r.slide = 0)

SlideRequests(i) == SelectSeq(rq_requests, LAMBDA r : r.slide = i)

RepairFails(got) == \E j \in 1..Len(got) : got[j].transcript.kind \notin {"str", "list"}

StaticFallback(n, slide_num) ==
    /\ n.slide_number = slide_num
    /\ n.transcript.src \in {"fallback_first", "fallback_last", "fallback_middle"}

\* the narrations batch b added to the accumulated list
AddedBy(b) ==
    SubSeq(all_transcripts, NarrationsBefore(b) + 1,
           NarrationsBefore(b) + Len(batch_results[b]))

\* C29: a batch whose repair raises adds no narration of the model: it adds
\* one static fallback entry for each of its slides, numbered batch_start+1
\* to batch_start+len(batch); any other batch adds the narrations of the
\* model, all of them; and no step changes a narration added before.
C29_BatchAcceptedAllOrNothing ==
    /\ [](\A b \in 1..Len(batch_results) :
            /\ Len(AddedBy(b)) = Len(batch_results[b])
            /\ \A j \in 1..Len(batch_results[b]) :
                 IF RepairFails(batch_results[b])
                 THEN StaticFallback(AddedBy(b)[j], NarrationsBefore(b) + j)
                 ELSE /\ AddedBy(b)[j].slide_number = batch_results[b][j].slide_number
                      /\ AddedBy(b)[j].transcript.src = batch_results[b][j].transcript.src)
    /\ [][all_transcripts' # <<>> =>
              SubSeq(all_transcripts', 1, Len(all_transcripts)) = all_transcripts]_vars

\* the second batch of three slides: its first narration is fine, a later one
\* is null, and all three entries are fallbacks after the first batch's own
C29_Witness ==
    /\ Len(batch_results) = 2
    /\ batch_size = 3
    /\ ~RepairFails(batch_results[1])
    /\ Len(batch_results[2]) = 3
    /\ batch_results[2][1].transcript.kind = "str"
    /\ batch_results[2][3].transcript.kind = "null"
    /\ StaticFallback(all_transcripts[4], 4)
    /\ StaticFallback(all_transcripts[6], 6)

\* ---------------------------------------------------------------- C30
\* a step that removes an intermediate directory or a file in one
RemovesIntermediates ==
    \/ images_dir.exists /\ ~images_dir'.exists
    \/ transcripts_dir.exists /\ ~transcripts_dir'.exists
    \/ audio_dir /\ ~audio_dir'
    \/ \E f \in images_dir.files : f \notin images_dir'.files
    \/ \E f \in 1..Len(audio_fs) : audio_fs[f] # 0 /\ audio_fs'[f] = 0

\* C30: intermediates are removed only by the step that follows the return of
\* the compositor and reports progress 1.0; a step in which a stage raises
\* removes nothing, whatever save_intermediates is.
C30_CleanupOnlyOnSuccessPath ==
    /\ [][RemovesIntermediates =>
              /\ pc = "s5"
              /\ syn_pc = "returned"
              /\ ~save_intermediates
              /\ progress'[Len(progress')] = CompleteProgress]_vars
    /\ [][pc # "s5" /\ pc' = "raised" =>
              /\ images_dir' = images_dir
              /\ transcripts_dir' = transcripts_dir
              /\ audio_dir' = audio_dir
              /\ audio_fs' = audio_fs]_vars

\* persistence is off, the compositor raised, and an audio file is on disk
C30_Witness ==
    /\ pc = "raised"
    /\ syn_pc = "raised"
    /\ ~save_intermediates
    /\ audio_dir
    /\ \E f \in 1..Len(audio_fs) : audio_fs[f] # 0

====
